---- MODULE Spec2Model ----
(***************************************************************************)
(* Model of the acs_bridge media pipeline: CallState, the MediaStreamer    *)
(* orchestrator (start/stop streaming, sender task, TTS-consumer task,     *)
(* play_audio_file), the pacer stream_wav_over_ws, the /ws endpoint and    *)
(* the control routes mute / play / say.                                   *)
(*                                                                         *)
(* Scheduling: everything except the capture callback and the STT worker   *)
(* runs on one asyncio event loop, so one action is the code between two   *)
(* suspension points (await of a pending future, asyncio.sleep).           *)
(***************************************************************************)
EXTENDS Naturals, Sequences, FiniteSets

\* ---------------------------------------------------------------- bounds
MaxConns == 2        \* websocket connections accepted in one run
MaxPlays == 1        \* control-surface play/say requests in flight at once
MaxFrames == 1       \* frames of one playback source
MaxSent == 2         \* audioData messages sent in one run
MaxPending == 1      \* items pending in one queue (outbound or transcript)
MaxRuns == 2         \* starts of the STT service in one run
MaxChunks == 2       \* single chunks submitted to the STT service in one run
MaxFed == 2          \* chunks the recognizers accept in one run
MaxSamples == 641    \* samples of a playback source
MaxSeq == 1          \* callState.seq at the start of a paced playback
MaxInbound == 2      \* inbound audioData messages in one run
MaxReceived == 3     \* messages read by the loop of one connection
MaxCalls == 2        \* synthesize calls made on the TTS services
MaxText == 2         \* characters, and chunks, of a model response
MaxReply == 3        \* chunks the model gives to one guarded reply
MaxRetries == 3      \* max_retries of a LinkedInLearningAPIClient

\* ------------------------------------------------------- program constants
TX_QUEUE_MAXSIZE == 200   \* asyncio.Queue(maxsize=200)
TTS_QUEUE_SIZE == 50
STT_QUEUE_SIZE == 400
STT_QUEUE_THRESHOLD == 350
SAMPLE_RATE == 16000
FRAME_MS == 20
max_retries == 3          \* OllamaLLM._generate_stream
base_delay == 1           \* seconds
retry_delay == 1          \* LinkedInLearningAPIClient.__init__, seconds
default_delay == 60       \* _get_retry_delay, seconds

None == 0
\* call_connection_id is an opaque string of the provider, or None.
NoCall == "none"
Conns == 1..MaxConns
Plays == 1..MaxPlays

VARIABLES
    callState,      \* CallState: ws, seq, muted, call_connection_id
    ms,             \* MediaStreamer fields
    stt,            \* VoskSTTService: _is_running, _transcript_queue
    sttAvailable,   \* stt_service.is_available (fixed at process start)
    conn,           \* websocket_endpoint coroutine of each connection
    txTask,         \* _tx_sender task created by the start of connection c
    ttsTask,        \* _tts_consumer task created by the start of connection c
    plays,          \* control-surface requests (api_play / api_say) in flight
    txq,            \* contents (frame count) of the outbound queue object c
    tqs,            \* contents (transcript count) of transcript queue object c
    captureActive,  \* sd.InputStream objects whose callback is still running
    wavOpen,        \* wave.Wave_write objects not yet closed
    sent,           \* audioData messages sent, in send order: [ws, seq]
    lastOp,         \* outcome of the handler step that produced this state
    \* VoskSTTService in detail (in the variables above the service is seen
    \* through `stt` alone)
    vosk,           \* _is_running, _stt_queue, _transcript_queue,
                    \* _worker_thread, _should_stop
    sttq,           \* contents of the work queue object of run r
    workers,        \* the worker thread of run r
    trq,            \* contents of the transcript queue object handed to start r
    joining,        \* stop_processing is inside _worker_thread.join
    nstart,         \* transcript queue objects created by start_streaming
    inbound,        \* chunks submitted so far (chunk k is the k-th submitted)
    fed,            \* chunks given to AcceptWaveform, in call order: [w, chunk]
    nfinal,         \* non-empty finalized results so far
    taken,          \* transcripts taken by a _tts_consumer, in order
    \* stream_wav_over_ws at the level of samples
    pacer,          \* one play_audio_file call: position and locals
    pframes,        \* frames sent by that call, in send order
    clock,          \* loop.time() since that call began and its pacing
                    \* times, in ms
    \* process_incoming_audio
    recorded,       \* appends to a recording, in order: writer w, receiving
                    \* channel c, bytes
    submitted,      \* byte strings handed to process_audio_chunk, in order
    \* websocket_endpoint, message loop
    received,       \* frames_received of the loop of connection c
    \* TTS services (composite, Piper, pyttsx3)
    synth,          \* cache files, engine invocations, outcome of the last call
    \* OllamaLLM._generate_stream
    llm,            \* one streaming generation: position and locals
    \* llm_respond_text
    respond,        \* one guarded reply: position, chunks yielded
    \* LinkedInLearningAPIClient.get
    lil,            \* one GET with retries: attempt, requests, sleeps
    \* history
    muteLog         \* the most recent accepted mute request: "none", "on"
                    \* or "off"; written only by MuteRequest

sttVars == <<vosk, sttq, workers, trq, joining, nstart, inbound, fed, nfinal,
             taken>>
pacerVars == <<pacer, pframes, clock>>
recVars == <<recorded, submitted>>
msgVars == <<received>>
synthVars == <<synth>>
llmVars == <<llm>>
agentVars == <<respond, lil>>
extVars == <<msgVars, synthVars, llmVars, agentVars, muteLog>>
auxVars == <<sttVars, pacerVars, recVars, extVars>>
\* CallState, MediaStreamer and its tasks, the channels.
callVars == <<callState, ms, stt, sttAvailable, conn, txTask, ttsTask,
              plays, txq, tqs, captureActive, wavOpen, sent, muteLog>>

vars == <<callState, ms, stt, sttAvailable, conn, txTask, ttsTask,
          plays, txq, tqs, captureActive, wavOpen, sent, lastOp, auxVars>>

Op(o, r, i) == [op |-> o, res |-> r, id |-> i]
\* A step whose outcome no property below speaks about.
Step == Op("step", "", 0)

IdleTask == [st |-> "none", q |-> None, cancel |-> FALSE,
             was |-> FALSE, seq |-> 0, left |-> 0]
FreePlay == [st |-> "free", was |-> FALSE, seq |-> 0, left |-> 0, ws |-> None]

\* VoskSTTService.__init__: not running, no queue, no worker; a new
\* threading.Event is clear.
IdleVosk == [is_running |-> FALSE, stt_queue |-> None,
             transcript_queue |-> None, worker_thread |-> None,
             should_stop |-> FALSE]
\* A worker thread: not created ("none"), in its loop between two chunks
\* ("ready"), inside AcceptWaveform(data) ("busy"), holding a finalized
\* non-empty text it has not yet emitted ("emit"), or returned ("done").
IdleWorker == [pc |-> "none", data |-> 0, item |-> 0]
IdlePacer == [pc |-> "idle", left |-> 0, seq |-> 0, was |-> FALSE,
              start |-> 0, total |-> 0,
              fmt |-> [channels |-> 1, rate |-> SAMPLE_RATE, width |-> 2]]
\* The event loop's clock at the start of a playback, nothing paced yet.
IdleClock == [now |-> 0, ref |-> 0, next_t |-> 0, sends |-> << >>,
              at |-> << >>, deadlines |-> << >>, asked |-> << >>]
\* Before the first playback nothing has read the clock.
NoClock == [now |-> 0]
Runs == 1..MaxRuns
\* A path that names no file, and the record of a call that was never made.
NoPath == [kind |-> "none", text |-> << >>, voice |-> "", rate |-> 0, n |-> 0]
NoSynth == [svc |-> "none", text |-> << >>, voice |-> "", rate |-> 0,
            res |-> "none", path |-> NoPath, tried |-> << >>,
            piper_n |-> 0, pyttsx3_n |-> 0]
\* The services before construction, and once constructed: nothing in the
\* cache directory, no call made.
IdleSynth == [pc |-> "idle"]
ReadySynth(pa, xa) ==
    [pc |-> "ready", piper_ok |-> pa, pyttsx3_ok |-> xa,
     files |-> {}, calls |-> 0, last |-> NoSynth, prev |-> NoSynth]
\* llm_respond_text and LinkedInLearningAPIClient.get before they are called.
IdleRespond == [pc |-> "idle"]
IdleLil == [pc |-> "idle"]
\* OllamaLLM before _generate_stream is entered, and on entry.
IdleLlm == [pc |-> "idle"]
NewLlm(lines, stops) ==
    [pc |-> "post", stop_sequences |-> stops, lines |-> lines,
     retries |-> 0, requests |-> 0, slept |-> << >>, status |-> 0,
     pos |-> 0, collected_text |-> << >>, yielded |-> << >>, cause |-> ""]

Init ==
    /\ callState = [ws |-> None, seq |-> 0, muted |-> FALSE,
                    call_connection_id |-> NoCall]
    /\ ms = [mic_stream |-> None, tx_queue |-> None, tx_task |-> None,
             tts_task |-> None, transcript_queue |-> None, wav_writer |-> None]
    /\ stt = [running |-> FALSE, tq |-> None]
    /\ sttAvailable \in BOOLEAN
    /\ conn = [c \in Conns |-> [pc |-> "idle", aw |-> None]]
    /\ txTask = [c \in Conns |-> IdleTask]
    /\ ttsTask = [c \in Conns |-> IdleTask]
    /\ plays = [p \in Plays |-> FreePlay]
    /\ txq = [c \in Conns |-> 0]
    /\ tqs = [c \in Conns |-> 0]
    /\ captureActive = {}
    /\ wavOpen = {}
    /\ sent = << >>
    /\ lastOp = Op("init", "ok", 0)
    /\ vosk = IdleVosk
    /\ sttq = [r \in Runs |-> << >>]
    /\ workers = [r \in Runs |-> IdleWorker]
    /\ trq = [r \in Runs |-> << >>]
    /\ joining = FALSE
    /\ nstart = 0
    /\ inbound = 0
    /\ fed = << >>
    /\ nfinal = 0
    /\ taken = << >>
    /\ pacer = IdlePacer
    /\ pframes = << >>
    /\ clock = NoClock
    /\ received = [c \in Conns |-> 0]
    /\ synth = IdleSynth
    /\ llm = IdleLlm
    /\ respond = IdleRespond
    /\ lil = IdleLil
    /\ muteLog = "none"
    /\ recorded = << >>
    /\ submitted = << >>

\* ------------------------------------------------------------- CallState
\* CallState.has_active_call
has_active_call_ws_only(cs) == cs.ws # None
has_active_call(cs) == cs.ws # None /\ cs.call_connection_id # NoCall

\* ------------------------------------------------------------ the channel
\* A send on websocket w succeeds while the peer is connected; afterwards
\* send_text raises.
ChanOpen(w) == w \in Conns /\ conn[w].pc = "open"

Finished(t) == t.st = "done"

\* try/finally of play_audio_file and of one _tts_consumer turn: the value
\* callState.muted has after the guarded block ended with outcome
\* "ok", "exc" (an exception) or "cancelled", given the saved was_muted and
\* the current value.
RestoreMuted_on_success_only(outcome, was_muted, cur) ==
    IF outcome = "ok" THEN was_muted ELSE cur
RestoreMuted(outcome, was_muted, cur) == was_muted

\* --------------------------------------------------------------- the pacer
\* stream_wav_over_ws from one suspension point to the next: the local seq
\* is `seq`, `left` frames remain unread.  Either the source is exhausted
\* and the function returns seq, or the send raises (peer gone), or one
\* frame numbered seq is sent, seq is incremented and the function sleeps.
StreamSegment(ws, seq, left) ==
    IF left = 0 THEN [res |-> "ret", seq |-> seq, left |-> 0, sent |-> sent]
    ELSE IF ~ChanOpen(ws)
         THEN [res |-> "exc", seq |-> seq, left |-> left, sent |-> sent]
         ELSE [res |-> "sleep", seq |-> seq + 1, left |-> left - 1,
               sent |-> Append(sent, [ws |-> ws, seq |-> seq])]

\* The first segment: the format assertion precedes the first read.
StreamBegin(ws, fmtOk, n, seq_start) ==
    IF ~fmtOk THEN [res |-> "exc", seq |-> seq_start, left |-> n, sent |-> sent]
    ELSE StreamSegment(ws, seq_start, n)

\* The run sends at most MaxSent messages.
SendAllowed(ws, left) == (left > 0 /\ ChanOpen(ws)) => Len(sent) < MaxSent

\* ---------------------------------------------------------- /events route
\* _handle_incoming_call: a successful answer stores the call handle; a
\* failed one is logged.
IncomingCall(ok) ==
    /\ callState' = IF ok THEN [callState EXCEPT !.call_connection_id = "call"]
                    ELSE callState
    /\ lastOp' = Step
    /\ UNCHANGED <<ms, stt, sttAvailable, auxVars, conn, txTask, ttsTask,
                   plays, txq, tqs, captureActive, wavOpen, sent>>

\* ----------------------------------------------------------- control routes
\* api_mute
ApiMute(on) ==
    /\ IF ~has_active_call(callState)
       THEN /\ lastOp' = Op("mute", "409", 0)
            /\ UNCHANGED callState
       ELSE /\ callState' = [callState EXCEPT !.muted = on]
            /\ lastOp' = Step
    /\ UNCHANGED <<ms, stt, sttAvailable, auxVars, conn, txTask, ttsTask,
                   plays, txq, tqs, captureActive, wavOpen, sent>>

\* api_mute with the accepted request recorded in muteLog.
MuteRequest(on) ==
    /\ IF ~has_active_call(callState)
       THEN /\ lastOp' = Op("mute", "409", 0)
            /\ UNCHANGED <<callState, muteLog>>
       ELSE /\ callState' = [callState EXCEPT !.muted = on]
            /\ muteLog' = IF on THEN "on" ELSE "off"
            /\ lastOp' = Step
    /\ UNCHANGED <<ms, stt, sttAvailable, sttVars, pacerVars, recVars,
                   msgVars, synthVars, llmVars, agentVars, conn, txTask,
                   ttsTask, plays, txq, tqs, captureActive, wavOpen, sent>>

\* MediaStreamer.play_audio_file up to its first suspension, run for the
\* request in slot p on a compliant source of n frames.
PlayAudioFileBegin(p, n) ==
    LET was_muted == callState.muted
        seg == StreamBegin(callState.ws, TRUE, n, callState.seq)
    IN  /\ SendAllowed(callState.ws, n)
        /\ sent' = seg.sent
        /\ CASE seg.res = "sleep" ->
                  /\ plays' = [plays EXCEPT ![p] =
                         [st |-> "playing", was |-> was_muted, seq |-> seg.seq,
                          left |-> seg.left, ws |-> callState.ws]]
                  /\ callState' = [callState EXCEPT !.muted = TRUE]
                  /\ lastOp' = Step
             [] seg.res = "ret" ->
                  /\ plays' = [plays EXCEPT ![p] = FreePlay]
                  /\ callState' = [callState EXCEPT
                         !.seq = seg.seq,
                         !.muted = RestoreMuted("ok", was_muted, TRUE)]
                  /\ lastOp' = Op("play_audio_file", "ok", 0)
             [] seg.res = "exc" ->
                  /\ plays' = [plays EXCEPT ![p] = FreePlay]
                  /\ callState' = [callState EXCEPT
                         !.muted = RestoreMuted("exc", was_muted, TRUE)]
                  /\ lastOp' = Op("play_audio_file", "exc", 0)

\* api_play: 409 without an active call, 400 for a missing file, 500 when
\* ensure_16k_mono_wav fails, otherwise play_audio_file.
ApiPlay(p, fileOk, prepOk, n) ==
    /\ plays[p].st = "free"
    /\ \A q \in Plays : q < p => plays[q].st # "free"
    /\ IF ~has_active_call(callState)
       THEN /\ lastOp' = Op("play", "409", 0)
            /\ UNCHANGED <<callState, plays, sent>>
       ELSE IF ~fileOk
       THEN /\ lastOp' = Step
            /\ UNCHANGED <<callState, plays, sent>>
       ELSE IF ~prepOk
       THEN /\ lastOp' = Step
            /\ UNCHANGED <<callState, plays, sent>>
       ELSE PlayAudioFileBegin(p, n)
    /\ UNCHANGED <<ms, stt, sttAvailable, auxVars, conn, txTask, ttsTask,
                   txq, tqs, captureActive, wavOpen>>

\* api_say up to `await tts_service.synthesize`.  ttsAvailable is the value
\* of tts_service.is_available at this request (it probes the voice file).
ApiSay(p, ttsAvailable, textOk) ==
    /\ plays[p].st = "free"
    /\ \A q \in Plays : q < p => plays[q].st # "free"
    /\ IF ~has_active_call(callState)
       THEN /\ lastOp' = Op("say", "409", 0)
            /\ UNCHANGED plays
       ELSE IF ~ttsAvailable
       THEN /\ lastOp' = Step
            /\ UNCHANGED plays
       ELSE IF ~textOk
       THEN /\ lastOp' = Step
            /\ UNCHANGED plays
       ELSE /\ plays' = [plays EXCEPT ![p] = [FreePlay EXCEPT !.st = "synth"]]
            /\ lastOp' = Step
    /\ UNCHANGED <<callState, ms, stt, sttAvailable, auxVars, conn, txTask,
                   ttsTask, txq, tqs, captureActive, wavOpen, sent>>

\* api_say after synthesize: a failure of synthesis or normalisation is a
\* 500, otherwise play_audio_file on the normalised asset.
SaySynthDone(p, ok, n) ==
    /\ plays[p].st = "synth"
    /\ IF ~ok
       THEN /\ plays' = [plays EXCEPT ![p] = FreePlay]
            /\ lastOp' = Step
            /\ UNCHANGED <<callState, sent>>
       ELSE PlayAudioFileBegin(p, n)
    /\ UNCHANGED <<ms, stt, sttAvailable, auxVars, conn, txTask, ttsTask,
                   txq, tqs, captureActive, wavOpen>>

\* play_audio_file resumed after the pacer's sleep.
PlayWake(p) ==
    LET r == plays[p]
        seg == StreamSegment(r.ws, r.seq, r.left)
    IN  /\ r.st = "playing"
        /\ SendAllowed(r.ws, r.left)
        /\ sent' = seg.sent
        /\ CASE seg.res = "sleep" ->
                  /\ plays' = [plays EXCEPT ![p].seq = seg.seq,
                                            ![p].left = seg.left]
                  /\ lastOp' = Step
                  /\ UNCHANGED callState
             [] seg.res = "ret" ->
                  /\ plays' = [plays EXCEPT ![p] = FreePlay]
                  /\ callState' = [callState EXCEPT
                         !.seq = seg.seq,
                         !.muted = RestoreMuted("ok", r.was, callState.muted)]
                  /\ lastOp' = Op("play_audio_file", "ok", 0)
             [] seg.res = "exc" ->
                  /\ plays' = [plays EXCEPT ![p] = FreePlay]
                  /\ callState' = [callState EXCEPT
                         !.muted = RestoreMuted("exc", r.was, callState.muted)]
                  /\ lastOp' = Op("play_audio_file", "exc", 0)
        /\ UNCHANGED <<ms, stt, sttAvailable, auxVars, conn, txTask,
                       ttsTask, txq, tqs, captureActive, wavOpen>>

\* api_hangup: 409 when no call handle is stored; otherwise the provider's
\* hang_up_call is called with it (ok: it returns; otherwise it raises and
\* the answer is 500).  CallState is not written.
ApiHangup(ok) ==
    /\ lastOp' = IF callState.call_connection_id = NoCall
                 THEN Op("hangup", "409", 0)
                 ELSE IF ok THEN Op("hangup", "ok", 0)
                 ELSE Op("hangup", "500", 0)
    /\ UNCHANGED <<callState, ms, stt, sttAvailable, auxVars, conn, txTask,
                   ttsTask, plays, txq, tqs, captureActive, wavOpen, sent>>

\* ------------------------------------------------------------ /ws endpoint
\* websocket_endpoint up to the message loop: accept, call_state.ws = websocket,
\* then MediaStreamer.start_streaming (which has no suspension point):
\* the already-active guard on _mic_stream, _start_recording, the STT start
\* and the TTS-consumer task when STT is available, then
\* _start_microphone_streaming (new outbound queue, capture device, sender
\* task).  micOk: the capture device opens and starts.
WsConnect(c, micOk) ==
    /\ conn[c].pc = "idle"
    /\ \A d \in Conns : d < c => conn[d].pc # "idle"
    /\ callState' = [callState EXCEPT !.ws = c]
    /\ conn' = [conn EXCEPT ![c].pc = "open"]
    /\ IF ms.mic_stream # None
       THEN /\ lastOp' = Op("ws_connect", "already_active", 0)
            /\ UNCHANGED <<ms, stt, txTask, ttsTask, txq, tqs, captureActive,
                           wavOpen>>
       ELSE /\ ms' = [mic_stream |-> IF micOk THEN c ELSE None,
                      tx_queue |-> c,
                      tx_task |-> c,
                      tts_task |-> IF sttAvailable THEN c ELSE ms.tts_task,
                      transcript_queue |->
                          IF sttAvailable THEN c ELSE ms.transcript_queue,
                      wav_writer |-> c]
            /\ wavOpen' = wavOpen \cup {c}
            /\ stt' = IF sttAvailable /\ ~stt.running
                      THEN [running |-> TRUE, tq |-> c] ELSE stt
            /\ ttsTask' = IF sttAvailable
                          THEN [ttsTask EXCEPT ![c] = [IdleTask EXCEPT !.st = "new"]]
                          ELSE ttsTask
            /\ txTask' = [txTask EXCEPT ![c] = [IdleTask EXCEPT !.st = "new"]]
            /\ captureActive' = IF micOk THEN captureActive \cup {c}
                                ELSE captureActive
            /\ UNCHANGED <<txq, tqs>>
            /\ lastOp' = Op("ws_connect", "started", 0)
    /\ UNCHANGED <<sttAvailable, auxVars, plays, sent>>

\* The peer closes the channel: from now on a send on it raises, and the
\* endpoint's message loop ends the next time the endpoint runs.
ChannelClose(c) ==
    /\ conn[c].pc = "open"
    /\ conn' = [conn EXCEPT ![c].pc = "closed"]
    /\ lastOp' = Step
    /\ UNCHANGED <<callState, ms, stt, sttAvailable, auxVars, txTask,
                   ttsTask, plays, txq, tqs, captureActive, wavOpen, sent>>

\* ------------------------------------------------------- capture callback
\* mic_callback of the capture stream m: returns when muted; otherwise
\* enqueues on self._tx_queue unless it is full (a missing queue raises
\* inside the try and is logged).
MicCallback(m) ==
    /\ m \in captureActive
    /\ IF callState.muted
       THEN /\ lastOp' = Step
            /\ UNCHANGED txq
       ELSE IF ms.tx_queue = None
       THEN /\ lastOp' = Step
            /\ UNCHANGED txq
       ELSE IF txq[ms.tx_queue] >= TX_QUEUE_MAXSIZE
       THEN /\ lastOp' = Step
            /\ UNCHANGED txq
       ELSE /\ txq[ms.tx_queue] < MaxPending
            /\ txq' = [txq EXCEPT ![ms.tx_queue] = @ + 1]
            /\ lastOp' = Step
    /\ UNCHANGED <<callState, ms, stt, sttAvailable, auxVars, conn, txTask,
                   ttsTask, plays, tqs, captureActive, wavOpen, sent>>

\* --------------------------------------------------------------- STT worker
\* VoskSTTService._emit_transcript: the worker puts a finalized transcript on
\* the transcript queue the service was started with, unless it is full.
SttEmit ==
    /\ stt.running
    /\ stt.tq # None
    /\ tqs[stt.tq] < TTS_QUEUE_SIZE
    /\ tqs[stt.tq] < MaxPending
    /\ tqs' = [tqs EXCEPT ![stt.tq] = @ + 1]
    /\ lastOp' = Step
    /\ UNCHANGED <<callState, ms, stt, sttAvailable, auxVars, conn, txTask,
                   ttsTask, plays, txq, captureActive, wavOpen, sent>>

\* -------------------------------------------------------------- sender task
\* One pass of the `while True` of _tx_sender from the loop top to its next
\* suspension: leave when self._tx_queue is None; otherwise get a frame
\* (suspending when the queue is empty) and call call_state.increment_seq(),
\* which CallState does not define: the AttributeError is caught by
\* `except Exception`, logged, and the task ends without sending.
TxLoopTop(c) ==
    IF ms.tx_queue = None
    THEN [task |-> [txTask[c] EXCEPT !.st = "done", !.q = None], txq |-> txq,
          res |-> "done"]
    ELSE IF txq[ms.tx_queue] > 0
    THEN [task |-> [txTask[c] EXCEPT !.st = "done", !.q = None],
          txq |-> [txq EXCEPT ![ms.tx_queue] = @ - 1], res |-> "exc"]
    ELSE [task |-> [txTask[c] EXCEPT !.st = "waiting", !.q = ms.tx_queue],
          txq |-> txq, res |-> "waiting"]

TxStart(c) ==
    /\ txTask[c].st = "new"
    /\ ~txTask[c].cancel
    /\ txTask' = [txTask EXCEPT ![c] = TxLoopTop(c).task]
    /\ txq' = TxLoopTop(c).txq
    /\ lastOp' = Step
    /\ UNCHANGED <<callState, ms, stt, sttAvailable, auxVars, conn, ttsTask,
                   plays, tqs, captureActive, wavOpen, sent>>

\* A sender whose increment_seq returns the next number: the frame taken
\* from the queue is sent on the channel and the loop goes on.
TxGet_sends(c) ==
    /\ txTask[c].st = "waiting"
    /\ ~txTask[c].cancel
    /\ txq[txTask[c].q] > 0
    /\ Len(sent) < MaxSent
    /\ txq' = [txq EXCEPT ![txTask[c].q] = @ - 1]
    /\ sent' = Append(sent, [ws |-> c, seq |-> callState.seq + 1])
    /\ callState' = [callState EXCEPT !.seq = @ + 1]
    /\ lastOp' = Step
    /\ UNCHANGED <<ms, stt, sttAvailable, auxVars, conn, txTask, ttsTask,
                   plays, tqs, captureActive, wavOpen>>

\* The sender resumes from `await self._tx_queue.get()` on the queue object
\* it suspended on.
TxGet(c) ==
    /\ txTask[c].st = "waiting"
    /\ ~txTask[c].cancel
    /\ txq[txTask[c].q] > 0
    /\ txq' = [txq EXCEPT ![txTask[c].q] = @ - 1]
    /\ txTask' = [txTask EXCEPT ![c] = [@ EXCEPT !.st = "done", !.q = None]]
    /\ lastOp' = Step
    /\ UNCHANGED <<callState, ms, stt, sttAvailable, auxVars, conn, ttsTask,
                   plays, tqs, captureActive, wavOpen, sent>>

\* CancelledError delivered to the sender at its suspension point.
TxCancelled(c) ==
    /\ txTask[c].st \in {"new", "waiting"}
    /\ txTask[c].cancel
    /\ txTask' = [txTask EXCEPT ![c] = [IdleTask EXCEPT !.st = "done"]]
    /\ lastOp' = Step
    /\ UNCHANGED <<callState, ms, stt, sttAvailable, auxVars, conn, ttsTask,
                   plays, txq, tqs, captureActive, wavOpen, sent>>

\* ------------------------------------------------------- TTS-consumer task
\* The `while True` of _tts_consumer from the loop top to the next
\* suspension, entered with callState.muted = m: leave when
\* self._transcript_queue is None; when the queue holds a transcript, get()
\* returns at once and the turn begins (was_muted = m, muted = True, then
\* `await synthesize`); otherwise suspend in get().
TtsLoopTop(c, m) ==
    IF ms.transcript_queue = None
    THEN [task |-> [IdleTask EXCEPT !.st = "done"], muted |-> m, tqs |-> tqs]
    ELSE IF tqs[ms.transcript_queue] > 0
    THEN [task |-> [IdleTask EXCEPT !.st = "synth", !.was = m],
          muted |-> TRUE,
          tqs |-> [tqs EXCEPT ![ms.transcript_queue] = @ - 1]]
    ELSE [task |-> [IdleTask EXCEPT !.st = "waiting", !.q = ms.transcript_queue],
          muted |-> m, tqs |-> tqs]

\* First run of the task.
TtsStart(c) ==
    LET top == TtsLoopTop(c, callState.muted)
    IN  /\ ttsTask[c].st = "new"
        /\ ~ttsTask[c].cancel
        /\ ttsTask' = [ttsTask EXCEPT ![c] = top.task]
        /\ tqs' = top.tqs
        /\ callState' = [callState EXCEPT !.muted = top.muted]
        /\ lastOp' = Step
        /\ UNCHANGED <<ms, stt, sttAvailable, auxVars, conn, txTask, plays,
                       txq, captureActive, wavOpen, sent>>

\* The task resumes from get() on the queue object it suspended on and
\* begins a turn.
TtsGet(c) ==
    /\ ttsTask[c].st = "waiting"
    /\ ~ttsTask[c].cancel
    /\ tqs[ttsTask[c].q] > 0
    /\ tqs' = [tqs EXCEPT ![ttsTask[c].q] = @ - 1]
    /\ ttsTask' = [ttsTask EXCEPT ![c] =
           [IdleTask EXCEPT !.st = "synth", !.was = callState.muted]]
    /\ callState' = [callState EXCEPT !.muted = TRUE]
    /\ lastOp' = Step
    /\ UNCHANGED <<ms, stt, sttAvailable, auxVars, conn, txTask, plays,
                   txq, captureActive, wavOpen, sent>>

\* Whether the `while True` of _tts_consumer goes round after a turn with
\* the given outcome: the try/except of a turn is inside the loop and
\* catches Exception, so only a cancellation leaves the loop.
LoopsAfter_success_only(outcome) == outcome = "ok"
LoopsAfter(outcome) == outcome \in {"ok", "exc"}

\* The end of a turn of task c with the given outcome: the finally block
\* restores muted, then the loop goes round (TtsLoopTop).
TtsTurnEnd(c, outcome, newseq) ==
    LET m == RestoreMuted(outcome, ttsTask[c].was, callState.muted)
        top == IF LoopsAfter(outcome) THEN TtsLoopTop(c, m)
               ELSE [task |-> [IdleTask EXCEPT !.st = "done"], muted |-> m,
                     tqs |-> tqs]
    IN  /\ ttsTask' = [ttsTask EXCEPT ![c] = top.task]
        /\ tqs' = top.tqs
        /\ callState' = [callState EXCEPT !.seq = newseq, !.muted = top.muted]
        /\ lastOp' = Op("tts_turn", outcome, c)

\* synthesize returns or raises; on success stream_wav_over_ws starts on the
\* websocket the task was created with.  The asset is not normalised here,
\* so the format assertion can fail (fmtOk).
TtsSynthDone(c, ok, fmtOk, n) ==
    LET seg == StreamBegin(c, fmtOk, n, callState.seq)
    IN  /\ ttsTask[c].st = "synth"
        /\ ~ttsTask[c].cancel
        /\ IF ~ok
           THEN /\ TtsTurnEnd(c, "exc", callState.seq)
                /\ UNCHANGED sent
           ELSE /\ fmtOk => SendAllowed(c, n)
                /\ sent' = seg.sent
                /\ CASE seg.res = "sleep" ->
                          /\ ttsTask' = [ttsTask EXCEPT ![c].st = "playing",
                                            ![c].seq = seg.seq,
                                            ![c].left = seg.left]
                          /\ lastOp' = Step
                          /\ UNCHANGED <<callState, tqs>>
                     [] seg.res = "ret" ->
                          TtsTurnEnd(c, "ok", seg.seq)
                     [] seg.res = "exc" ->
                          TtsTurnEnd(c, "exc", callState.seq)
        /\ UNCHANGED <<ms, stt, sttAvailable, auxVars, conn, txTask, plays,
                       txq, captureActive, wavOpen>>

\* The turn resumes after the pacer's sleep.
TtsWake(c) ==
    LET r == ttsTask[c]
        seg == StreamSegment(c, r.seq, r.left)
    IN  /\ r.st = "playing"
        /\ ~r.cancel
        /\ SendAllowed(c, r.left)
        /\ sent' = seg.sent
        /\ CASE seg.res = "sleep" ->
                  /\ ttsTask' = [ttsTask EXCEPT ![c].seq = seg.seq,
                                                ![c].left = seg.left]
                  /\ lastOp' = Step
                  /\ UNCHANGED <<callState, tqs>>
             [] seg.res = "ret" -> TtsTurnEnd(c, "ok", seg.seq)
             [] seg.res = "exc" -> TtsTurnEnd(c, "exc", callState.seq)
        /\ UNCHANGED <<ms, stt, sttAvailable, auxVars, conn, txTask, plays,
                       txq, captureActive, wavOpen>>

\* CancelledError delivered to the task at its suspension point; inside a
\* turn the finally block runs before the error leaves the task.
TtsCancelled(c) ==
    LET r == ttsTask[c]
    IN  /\ r.st \in {"new", "waiting", "synth", "playing"}
        /\ r.cancel
        /\ ttsTask' = [ttsTask EXCEPT ![c] = [IdleTask EXCEPT !.st = "done"]]
        /\ callState' = [callState EXCEPT !.muted =
               IF r.st \in {"synth", "playing"}
               THEN RestoreMuted("cancelled", r.was, callState.muted)
               ELSE callState.muted]
        /\ lastOp' = IF r.st \in {"synth", "playing"}
                      THEN Op("tts_turn", "cancelled", c) ELSE Step
        /\ UNCHANGED <<ms, stt, sttAvailable, auxVars, conn, txTask, plays,
                       txq, tqs, captureActive, wavOpen, sent>>

\* ---------------------------------------------------------- stop_streaming
\* _cleanup_websocket_connection runs stop_streaming and then
\* call_state.reset(), which CallState does not define: the AttributeError
\* is caught and logged, so CallState is left as it is.
\*
\* stop_streaming from the return of `await self._tts_task` to the end of
\* the cleanup, on streamer fields m: drop the task handle, stop the STT
\* service when available, close the recording, clear the transcript queue.
StopSeg3(c, m) ==
    /\ ms' = [m EXCEPT !.tts_task = None, !.wav_writer = None,
                       !.transcript_queue = None]
    /\ stt' = IF sttAvailable /\ stt.running
              THEN [running |-> FALSE, tq |-> None] ELSE stt
    /\ wavOpen' = IF m.wav_writer # None THEN wavOpen \ {m.wav_writer}
                  ELSE wavOpen
    /\ conn' = [conn EXCEPT ![c] = [pc |-> "done", aw |-> None]]
    /\ lastOp' = Op("cleanup", "done", 0)

\* From the return of `await self._tx_task` in _stop_microphone_streaming:
\* drop the sender handle; stop and close the capture stream under one
\* suppress(Exception), so a raising stop() (stopOk false) skips close();
\* clear the outbound queue; back in stop_streaming cancel the TTS-consumer
\* task and await it.  Awaiting a task that has already ended does not
\* suspend.
StopSeg2(c, stopOk) ==
    LET m2 == [ms EXCEPT !.tx_task = None, !.mic_stream = None,
                         !.tx_queue = None]
        u == ms.tts_task
    IN  /\ captureActive' = IF ms.mic_stream # None /\ stopOk
                            THEN captureActive \ {ms.mic_stream}
                            ELSE captureActive
        /\ IF u # None /\ ~Finished(ttsTask[u])
           THEN /\ ttsTask' = [ttsTask EXCEPT ![u].cancel = TRUE]
                /\ ms' = m2
                /\ conn' = [conn EXCEPT ![c] = [pc |-> "await_tts", aw |-> u]]
                /\ lastOp' = Step
                /\ UNCHANGED <<stt, wavOpen>>
           ELSE /\ StopSeg3(c, m2)
                /\ UNCHANGED ttsTask

\* A cleanup that cancels the sender task without awaiting it.
CleanupBegin_noawait(c, stopOk) ==
    LET t == ms.tx_task
    IN  /\ conn[c].pc = "closed"
        /\ txTask' = IF t # None /\ ~Finished(txTask[t])
                      THEN [txTask EXCEPT ![t].cancel = TRUE] ELSE txTask
        /\ StopSeg2(c, stopOk)
        /\ UNCHANGED <<callState, sttAvailable, auxVars, plays, txq, tqs,
                       sent>>

\* The endpoint leaves its message loop and runs the cleanup up to the
\* first await that suspends.
CleanupBegin(c, stopOk) ==
    LET t == ms.tx_task
    IN  /\ conn[c].pc = "closed"
        /\ IF t # None /\ ~Finished(txTask[t])
           THEN /\ txTask' = [txTask EXCEPT ![t].cancel = TRUE]
                /\ conn' = [conn EXCEPT ![c] = [pc |-> "await_tx", aw |-> t]]
                /\ lastOp' = Step
                /\ UNCHANGED <<ms, stt, ttsTask, captureActive, wavOpen>>
           ELSE /\ StopSeg2(c, stopOk)
                /\ UNCHANGED txTask
        /\ UNCHANGED <<callState, sttAvailable, auxVars, plays, txq, tqs,
                       sent>>

\* stop_streaming resumes once the awaited sender task has ended.
CleanupAfterTx(c, stopOk) ==
    /\ conn[c].pc = "await_tx"
    /\ Finished(txTask[conn[c].aw])
    /\ StopSeg2(c, stopOk)
    /\ UNCHANGED <<callState, sttAvailable, auxVars, txTask, plays, txq,
                   tqs, sent>>

\* stop_streaming resumes once the awaited TTS-consumer task has ended.
CleanupAfterTts(c) ==
    /\ conn[c].pc = "await_tts"
    /\ Finished(ttsTask[conn[c].aw])
    /\ StopSeg3(c, ms)
    /\ UNCHANGED <<callState, sttAvailable, auxVars, txTask, ttsTask,
                   plays, txq, tqs, captureActive, sent>>

\* ================================================== VoskSTTService in detail
\* Texts are sequences over a blank and a letter.
Chars == {" ", "a"}
RawTexts == {<< >>} \cup {<<c>> : c \in Chars}
                \cup {<<c, d>> : c \in Chars, d \in Chars}

\* str.strip()
RECURSIVE LStrip(_)
LStrip(s) == IF s # << >> /\ Head(s) = " " THEN LStrip(Tail(s)) ELSE s
RECURSIVE RStrip(_)
RStrip(s) == IF s # << >> /\ s[Len(s)] = " "
             THEN RStrip(SubSeq(s, 1, Len(s) - 1)) ELSE s
Strip(s) == RStrip(LStrip(s))

\* _stt_worker after AcceptWaveform: the text handed to _emit_transcript,
\* empty when nothing is emitted.  A finalized result gives its trimmed
\* text; a partial hypothesis is only logged.
ResultText_any(final, raw) == Strip(raw)
ResultText(final, raw) == IF final THEN Strip(raw) ELSE << >>

\* queue.Queue.get / asyncio.Queue.get: the oldest item.
QueueGet(s) == Head(s)
QueueRest(s) == Tail(s)

\* start_processing: the already-running guard.
AlreadyRunning_never(v) == FALSE
AlreadyRunning(v) == v.is_running

\* stop_processing: the not-running guard.
NotRunning_never(v) == FALSE
NotRunning(v) == ~v.is_running

\* process_audio_chunk: the high-water test on qsize().
BelowThreshold_capacity(n) == n < STT_QUEUE_SIZE
BelowThreshold(n) == n < STT_QUEUE_THRESHOLD

\* process_audio_chunk on service fields v and work queues qs: the outcome
\* and the queues afterwards.  Nothing is done when the service is not
\* running; at or above the threshold the chunk is dropped; put_nowait on a
\* full queue raises queue.Full, which is caught.
process_audio_chunk(v, qs, chunk) ==
    IF ~v.is_running \/ v.stt_queue = None
    THEN [res |-> "not_running", qs |-> qs]
    ELSE IF ~BelowThreshold(Len(qs[v.stt_queue]))
    THEN [res |-> "dropped", qs |-> qs]
    ELSE IF Len(qs[v.stt_queue]) >= STT_QUEUE_SIZE
    THEN [res |-> "full", qs |-> qs]
    ELSE [res |-> "queued",
          qs |-> [qs EXCEPT ![v.stt_queue] = Append(@, chunk)]]

\* n chunks numbered from `first` submitted one after the other with no
\* worker step in between: the queue only grows, so the chunks accepted are
\* the first k, those submitted while the tests of process_audio_chunk
\* still passed.
SubmitAll(v, qs, first, n) ==
    IF ~v.is_running \/ v.stt_queue = None THEN qs
    ELSE LET len0 == Len(qs[v.stt_queue])
             k == Cardinality({i \in 0..(n - 1) :
                      /\ BelowThreshold(len0 + i)
                      /\ len0 + i < STT_QUEUE_SIZE})
         IN  [qs EXCEPT ![v.stt_queue] = @ \o [i \in 1..k |-> first + i - 1]]

\* A long run of inbound frames during which no worker takes a chunk.
BurstLen == STT_QUEUE_THRESHOLD - 1
\* Chunks submitted one at a time so far.
Singles == IF inbound >= BurstLen THEN inbound - BurstLen ELSE inbound

\* start_streaming, lines 64-66: a new transcript queue object q, then
\* start_processing(q): nothing when already running; otherwise the queue is
\* kept, a new work queue is made, the stop flag is cleared and a worker
\* thread is started.
SttStart ==
    LET q == nstart + 1
    IN  /\ sttAvailable
        /\ ~joining
        /\ nstart < MaxRuns
        /\ nstart' = q
        /\ IF AlreadyRunning(vosk)
           THEN /\ lastOp' = Op("stt_start", "already_running", 0)
                /\ UNCHANGED <<vosk, workers>>
           ELSE /\ vosk' = [is_running |-> TRUE, stt_queue |-> q,
                            transcript_queue |-> q, worker_thread |-> q,
                            should_stop |-> FALSE]
                /\ workers' = [workers EXCEPT ![q] =
                                  [IdleWorker EXCEPT !.pc = "ready"]]
                /\ lastOp' = Op("stt_start", "started", 0)
        /\ UNCHANGED <<sttq, trq, joining, inbound, fed, nfinal, taken>>
        /\ UNCHANGED <<callState, ms, stt, sttAvailable, conn, txTask, ttsTask,
                       plays, txq, tqs, captureActive, wavOpen, sent,
                       pacerVars, recVars, extVars>>

\* process_incoming_audio, lines 115-116: the next inbound chunk is handed
\* to process_audio_chunk.
ProcessAudioChunk ==
    LET chunk == inbound + 1
        r == process_audio_chunk(vosk, sttq, chunk)
    IN  /\ sttAvailable
        /\ ~joining
        /\ Singles < MaxChunks
        /\ inbound' = chunk
        /\ sttq' = r.qs
        /\ lastOp' = Op("stt_chunk", r.res, 0)
        /\ UNCHANGED <<vosk, workers, trq, joining, nstart, fed, nfinal, taken>>
        /\ UNCHANGED <<callState, ms, stt, sttAvailable, conn, txTask, ttsTask,
                       plays, txq, tqs, captureActive, wavOpen, sent,
                       pacerVars, recVars, extVars>>

\* BurstLen inbound chunks in a row, each through process_audio_chunk, while
\* the worker is held up in the recognizer.
InboundBurst ==
    /\ sttAvailable
    /\ ~joining
    /\ vosk.is_running
    /\ inbound < BurstLen
    /\ inbound' = inbound + BurstLen
    /\ sttq' = SubmitAll(vosk, sttq, inbound + 1, BurstLen)
    /\ lastOp' = Step
    /\ UNCHANGED <<vosk, workers, trq, joining, nstart, fed, nfinal, taken>>
    /\ UNCHANGED <<callState, ms, stt, sttAvailable, conn, txTask, ttsTask,
                   plays, txq, tqs, captureActive, wavOpen, sent,
                   pacerVars, recVars, extVars>>

\* stop_processing on service fields v once the join has returned (or with
\* no worker to join): every field is cleared; the stop flag stays set.
StopCleared(v) == [is_running |-> FALSE, stt_queue |-> None,
                   transcript_queue |-> None, worker_thread |-> None,
                   should_stop |-> TRUE]

\* _worker_thread.join(timeout=2.0) returns when the worker has returned, or
\* when the timeout passes with the worker still inside the recognizer.
JoinReturns_no_timeout(w) == w.pc = "done"
JoinReturns(w) == w.pc = "done" \/ w.pc = "busy"

\* stop_streaming, lines 93-94: stop_processing up to the join.  Nothing
\* when not running; otherwise set the stop flag, put the None sentinel on
\* the work queue (a full queue raises, which is suppressed) and join the
\* worker.
SttStopBegin ==
    LET q == vosk.stt_queue
    IN  /\ sttAvailable
        /\ ~joining
        /\ IF NotRunning(vosk)
           THEN /\ lastOp' = Op("stt_stop", "not_running", 0)
                /\ UNCHANGED <<vosk, sttq, joining>>
           ELSE /\ sttq' = IF q # None /\ Len(sttq[q]) < STT_QUEUE_SIZE
                           THEN [sttq EXCEPT ![q] = Append(@, None)]
                           ELSE sttq
                /\ IF vosk.worker_thread # None
                   THEN /\ vosk' = [vosk EXCEPT !.should_stop = TRUE]
                        /\ joining' = TRUE
                        /\ lastOp' = Step
                   ELSE /\ vosk' = StopCleared(vosk)
                        /\ joining' = FALSE
                        /\ lastOp' = Op("stt_stop", "stopped", 0)
        /\ UNCHANGED <<workers, trq, nstart, inbound, fed, nfinal, taken>>
        /\ UNCHANGED <<callState, ms, stt, sttAvailable, conn, txTask, ttsTask,
                       plays, txq, tqs, captureActive, wavOpen, sent,
                       pacerVars, recVars, extVars>>

\* stop_processing from the return of the join: a worker still alive is
\* logged and left behind; the fields are cleared.
SttStopEnd ==
    /\ joining
    /\ JoinReturns(workers[vosk.worker_thread])
    /\ vosk' = StopCleared(vosk)
    /\ joining' = FALSE
    /\ lastOp' = Op("stt_stop", "stopped", 0)
    /\ UNCHANGED <<sttq, workers, trq, nstart, inbound, fed, nfinal, taken>>
    /\ UNCHANGED <<callState, ms, stt, sttAvailable, conn, txTask, ttsTask,
                   plays, txq, tqs, captureActive, wavOpen, sent,
                   pacerVars, recVars, extVars>>

\* _stt_worker, thread w, from the loop test to AcceptWaveform: leave when
\* the stop flag is set; self._stt_queue is read anew on every pass, so a
\* cleared field raises (caught: break) and a replaced one is followed; an
\* empty queue makes get time out and the loop go round; the None sentinel
\* ends the loop; a chunk is given to this worker's recognizer.
WorkerTake(w) ==
    LET q == vosk.stt_queue
    IN  /\ workers[w].pc = "ready"
        /\ IF vosk.should_stop \/ q = None
           THEN /\ workers' = [workers EXCEPT ![w] =
                                  [IdleWorker EXCEPT !.pc = "done"]]
                /\ UNCHANGED <<sttq, fed>>
           ELSE /\ sttq[q] # << >>
                /\ sttq' = [sttq EXCEPT ![q] = QueueRest(@)]
                /\ IF QueueGet(sttq[q]) = None
                   THEN /\ workers' = [workers EXCEPT ![w] =
                                          [IdleWorker EXCEPT !.pc = "done"]]
                        /\ UNCHANGED fed
                   ELSE /\ Len(fed) < MaxFed
                        /\ workers' = [workers EXCEPT ![w] =
                               [pc |-> "busy", data |-> QueueGet(sttq[q]),
                                item |-> 0]]
                        /\ fed' = Append(fed, [w |-> w,
                                               chunk |-> QueueGet(sttq[q])])
        /\ lastOp' = Step
        /\ UNCHANGED <<vosk, trq, joining, nstart, inbound, nfinal, taken>>
        /\ UNCHANGED <<callState, ms, stt, sttAvailable, conn, txTask, ttsTask,
                       plays, txq, tqs, captureActive, wavOpen, sent,
                       pacerVars, recVars, extVars>>

\* AcceptWaveform returns in thread w: final tells whether the utterance is
\* finalized, raw is the text of Result() or of PartialResult().  A text to
\* emit becomes the next transcript [final, text, n, w].
WorkerAccept(w, final, raw) ==
    LET text == ResultText(final, raw)
    IN  /\ workers[w].pc = "busy"
        /\ IF text # << >>
           THEN /\ nfinal' = nfinal + 1
                /\ workers' = [workers EXCEPT ![w] =
                       [pc |-> "emit", data |-> 0,
                        item |-> [final |-> final, text |-> text,
                                  n |-> nfinal + 1, w |-> w]]]
           ELSE /\ workers' = [workers EXCEPT ![w] =
                                  [IdleWorker EXCEPT !.pc = "ready"]]
                /\ UNCHANGED nfinal
        /\ lastOp' = Step
        /\ UNCHANGED <<vosk, sttq, trq, joining, nstart, inbound, fed, taken>>
        /\ UNCHANGED <<callState, ms, stt, sttAvailable, conn, txTask, ttsTask,
                       plays, txq, tqs, captureActive, wavOpen, sent,
                       pacerVars, recVars, extVars>>

\* _emit_transcript in thread w: put_nowait on self._transcript_queue;
\* nothing when the field is None, a full queue drops the transcript.
WorkerEmit(w) ==
    LET q == vosk.transcript_queue
    IN  /\ workers[w].pc = "emit"
        /\ trq' = IF q # None /\ Len(trq[q]) < TTS_QUEUE_SIZE
                  THEN [trq EXCEPT ![q] = Append(@, workers[w].item)]
                  ELSE trq
        /\ workers' = [workers EXCEPT ![w] = [IdleWorker EXCEPT !.pc = "ready"]]
        /\ lastOp' = Step
        /\ UNCHANGED <<vosk, sttq, joining, nstart, inbound, fed, nfinal, taken>>
        /\ UNCHANGED <<callState, ms, stt, sttAvailable, conn, txTask, ttsTask,
                       plays, txq, tqs, captureActive, wavOpen, sent,
                       pacerVars, recVars, extVars>>

\* _tts_consumer, line 249: a consumer task takes the oldest transcript of
\* the queue the service emits to.
TranscriptGet ==
    LET q == vosk.transcript_queue
    IN  /\ ~joining
        /\ q # None
        /\ trq[q] # << >>
        /\ taken' = Append(taken, QueueGet(trq[q]))
        /\ trq' = [trq EXCEPT ![q] = QueueRest(@)]
        /\ lastOp' = Step
        /\ UNCHANGED <<vosk, sttq, workers, joining, nstart, inbound, fed,
                       nfinal>>
        /\ UNCHANGED <<callState, ms, stt, sttAvailable, conn, txTask, ttsTask,
                       plays, txq, tqs, captureActive, wavOpen, sent,
                       pacerVars, recVars, extVars>>

\* ============================================ stream_wav_over_ws in detail
\* A playback source as wave.open reports it: channels, frame rate, sample
\* width in bytes, and its number of sample frames.
Formats == [channels : {1, 2}, rate : {8000, SAMPLE_RATE}, width : {1, 2}]

\* stream_wav_over_ws, lines 68-69 (frame_ms defaults to FRAME_MS).
samples_per_frame == (SAMPLE_RATE * FRAME_MS) \div 1000
bytes_per_frame == samples_per_frame * 2

\* The assertion on the opened source.
Compliant_channels_only(f) == f.channels = 1
Compliant(f) == f.channels = 1 /\ f.rate = SAMPLE_RATE /\ f.width = 2

\* w.readframes(samples_per_frame): the number of bytes read when `left`
\* sample frames remain.
ReadFrames(f, left) ==
    (IF left < samples_per_frame THEN left ELSE samples_per_frame)
        * f.channels * f.width

\* Zero bytes appended to a chunk of len bytes.
PadLen_none(len) == 0
PadLen(len) == IF len < bytes_per_frame THEN bytes_per_frame - len ELSE 0

\* Source bytes read by the frames sent so far.
BytesRead(frames) ==
    IF frames = << >> THEN 0
    ELSE frames[Len(frames)].off + frames[Len(frames)].data

\* One pass of the loop of stream_wav_over_ws with local seq, `left` sample
\* frames unread and `frames` sent so far by this call: the source is
\* exhausted and the function returns seq; or send_text raises; or the
\* frame [seq, off, data, zeros] (data source bytes from offset off, then
\* zeros zero bytes) is sent, seq is incremented and the function sleeps.
PaceSegment(f, seq, left, frames, sendOk) ==
    LET len == ReadFrames(f, left)
        off == BytesRead(frames)
        took == IF left < samples_per_frame THEN left ELSE samples_per_frame
    IN  IF len = 0
        THEN [res |-> "ret", seq |-> seq, left |-> left, frames |-> frames]
        ELSE IF ~sendOk
        THEN [res |-> "exc", seq |-> seq, left |-> left - took,
              frames |-> frames]
        ELSE [res |-> "sleep", seq |-> seq + 1, left |-> left - took,
              frames |-> Append(frames, [seq |-> seq, off |-> off,
                                          data |-> len, zeros |-> PadLen(len)])]

\* Milliseconds a send_text takes, and by how much asyncio.sleep outlasts
\* the time asked for.
SendTimes == {0, 25}
Overshoots == {0, 3}

\* next_t += interval
NextDeadline_from_now(next_t, now) == now + FRAME_MS
NextDeadline(next_t, now) == next_t + FRAME_MS
\* max(0.0, next_t - loop.time())
SleepFor(next_t, now) == IF next_t > now THEN next_t - now ELSE 0

\* The clock and the pacing times after one segment entered at clock c: a
\* frame is sent at c.now, the send lasts d, then next_t advances and the
\* sleep is asked for; a segment that sends nothing reads no time.
Paced(c, seg, d) ==
    IF seg.res # "sleep" THEN c
    ELSE LET now    == c.now + d
             next_t == NextDeadline(c.next_t, now)
         IN  [c EXCEPT !.now = now, !.next_t = next_t,
                       !.sends = Append(@, c.now),
                       !.at = Append(@, now),
                       !.deadlines = Append(@, next_t),
                       !.asked = Append(@, SleepFor(next_t, now))]

\* play_audio_file around one segment of the pacer: a return stores the
\* returned number in callState.seq, an exception skips the assignment, and
\* the finally block restores muted in both cases.
PaceOutcome(seg, f, was, start, total, c) ==
    /\ pframes' = seg.frames
    /\ clock' = c
    /\ pacer' = [pc |-> seg.res, left |-> seg.left, seq |-> seg.seq,
                 was |-> was, start |-> start, fmt |-> f, total |-> total]
    /\ CASE seg.res = "sleep" ->
              /\ callState' = [callState EXCEPT !.muted = TRUE]
              /\ lastOp' = Step
         [] seg.res = "ret" ->
              /\ callState' = [callState EXCEPT
                     !.seq = seg.seq,
                     !.muted = RestoreMuted("ok", was, TRUE)]
              /\ lastOp' = Op("play_audio_file", "ok", 0)
         [] seg.res = "exc" ->
              /\ callState' = [callState EXCEPT
                     !.muted = RestoreMuted("exc", was, TRUE)]
              /\ lastOp' = Op("play_audio_file", "exc", 0)

\* play_audio_file on a source of format f with n sample frames, up to the
\* first suspension of stream_wav_over_ws: the assertion precedes the first
\* read.
PacedPlayBegin(f, n, sendOk, d) ==
    LET was == callState.muted
        start == callState.seq
        \* next_t = loop.time(), read once before the source is opened;
        \* time is counted from that reading
        c0 == [IdleClock EXCEPT !.ref = IdleClock.now,
                                !.next_t = IdleClock.now]
        seg == IF ~Compliant(f)
               THEN [res |-> "exc", seq |-> start, left |-> n,
                     frames |-> << >>]
               ELSE PaceSegment(f, start, n, << >>, sendOk)
    IN  /\ pacer.pc \in {"idle", "ret", "exc"}
        /\ callState.seq <= MaxSeq
        /\ PaceOutcome(seg, f, was, start, n * f.channels * f.width,
                       Paced(c0, seg, d))
        /\ UNCHANGED <<ms, stt, sttAvailable, conn, txTask, ttsTask, plays,
                       txq, tqs, captureActive, wavOpen, sent, sttVars,
                       recVars, extVars>>

\* stream_wav_over_ws resumed after its sleep.
PacedPlayWake(sendOk, d, e) ==
    /\ pacer.pc = "sleep"
    /\ LET seg == PaceSegment(pacer.fmt, pacer.seq, pacer.left, pframes,
                              sendOk)
           c1  == [clock EXCEPT
                      !.now = @ + clock.asked[Len(clock.asked)] + e]
       IN  PaceOutcome(seg, pacer.fmt, pacer.was, pacer.start, pacer.total,
                       Paced(c1, seg, d))
    /\ UNCHANGED <<ms, stt, sttAvailable, conn, txTask, ttsTask, plays,
                   txq, tqs, captureActive, wavOpen, sent, sttVars, recVars,
                   extVars>>

\* ================================================== inbound audio messages
\* base64.b64decode(b64_data), that is binascii.a2b_base64 without strict
\* mode, on a text over four alphabet characters, the pad and a character
\* outside the alphabet.  B64Value: the 6-bit value of an alphabet character.
B64Alphabet == {"A", "Q", "8", "/"}
B64Value(c) == CASE c = "A" -> 0 [] c = "Q" -> 16 [] c = "8" -> 60
                 [] c = "/" -> 63

\* The scan from character i with quad characters of the current group
\* read, `left` the bits carried over, pads the pad characters just seen and
\* out the bytes produced: a pad that completes a group of two or three
\* characters ends the scan, any other pad and any character outside the
\* alphabet is skipped, and an incomplete group at the end is an error.
RECURSIVE B64Scan(_, _, _, _, _, _)
B64Scan(s, i, quad, left, pads, out) ==
    IF i > Len(s)
    THEN [ok |-> quad = 0, bytes |-> out]
    ELSE IF s[i] = "="
    THEN IF quad >= 2 /\ quad + pads + 1 >= 4
         THEN [ok |-> TRUE, bytes |-> out]
         ELSE B64Scan(s, i + 1, quad, left, pads + 1, out)
    ELSE IF s[i] \notin B64Alphabet
    THEN B64Scan(s, i + 1, quad, left, pads, out)
    ELSE LET v == B64Value(s[i])
         IN  CASE quad = 0 -> B64Scan(s, i + 1, 1, v, 0, out)
               [] quad = 1 -> B64Scan(s, i + 1, 2, v % 16, 0,
                                      Append(out, (left * 4 + v \div 16) % 256))
               [] quad = 2 -> B64Scan(s, i + 1, 3, v % 4, 0,
                                      Append(out, left * 16 + v \div 4))
               [] quad = 3 -> B64Scan(s, i + 1, 0, 0, 0,
                                      Append(out, left * 64 + v))
B64Decode(s) == B64Scan(s, 1, 0, 0, 0, << >>)

\* The "data" member of inbound audioData messages: absent or empty, one
\* byte, two bytes, three bytes in one full group, a text with a character
\* outside the alphabet, and two texts with an incomplete group.
Payloads ==
    { << >>,
      <<"Q", "Q", "=", "=">>,
      <<"/", "/", "8", "=">>,
      <<"Q", "!", "Q", "=", "=">>,
      <<"Q", "Q", "Q">>,
      <<"A">> }

\* _process_audio_data: the guard on the "data" member.
HasPayload_always(b64_data) == TRUE
HasPayload(b64_data) == b64_data # << >>

\* process_incoming_audio: the guard on the STT forward.
ForwardToStt(available) == available

\* One audioData message read by the message loop of connection c:
\* _process_audio_data returns on a missing payload, logs a decoding error,
\* and otherwise calls process_incoming_audio, which appends the bytes to
\* the open recording and passes them to process_audio_chunk when STT is
\* available.
InboundAudio(c, b64_data) ==
    LET dec == B64Decode(b64_data)
    IN  /\ conn[c].pc = "open"
        /\ Len(recorded) < MaxInbound
        /\ Len(submitted) < MaxInbound
        /\ received[c] < MaxReceived
        /\ received' = [received EXCEPT ![c] = @ + 1]
        /\ IF ~HasPayload(b64_data)
           THEN /\ lastOp' = Op("audio_data", "no_data", 0)
                /\ UNCHANGED recVars
           ELSE IF ~dec.ok
           THEN /\ lastOp' = Op("audio_data", "error", 0)
                /\ UNCHANGED recVars
           ELSE /\ recorded' = IF ms.wav_writer # None
                               THEN Append(recorded, [w |-> ms.wav_writer,
                                                      c |-> c,
                                                      data |-> dec.bytes])
                               ELSE recorded
                /\ submitted' = IF ForwardToStt(sttAvailable)
                                THEN Append(submitted, dec.bytes)
                                ELSE submitted
                /\ lastOp' = Op("audio_data", "processed", 0)
        /\ UNCHANGED <<callState, ms, stt, sttAvailable, conn, txTask, ttsTask,
                       plays, txq, tqs, captureActive, wavOpen, sent, sttVars,
                       pacerVars, synthVars, llmVars, agentVars, muteLog>>

\* An inbound text message: form tells whether json.loads fails
\* ("invalid"), gives something other than an object ("array") or gives an
\* object; kind is the object's "kind" member ("" when it is missing) and
\* data the "data" member of its audioData.
MessageKinds == {"AudioData", "audioData", "AudioMetadata", "stopAudio", ""}
\* str.lower() on those kinds.
Lower(k) == CASE k = "AudioData" -> "audiodata"
              [] k = "audioData" -> "audiodata"
              [] k = "AudioMetadata" -> "audiometadata"
              [] k = "stopAudio" -> "stopaudio"
              [] k = "" -> ""
Messages ==
    {[form |-> f, kind |-> "", data |-> << >>] : f \in {"invalid", "array"}}
    \cup {[form |-> "object", kind |-> k, data |-> << >>] :
              k \in {"AudioMetadata", "stopAudio", ""}}
    \cup {[form |-> "object", kind |-> k, data |-> d] :
              k \in {"AudioData", "audioData"}, d \in Payloads}

\* One pass of the message loop of connection c, _process_websocket_message
\* and frames_received += 1: a text that is not JSON is logged; data.get on
\* something that is not an object raises and is logged; metadata is logged;
\* audio data goes to _process_audio_data; any other kind is ignored.
InboundMessage(c, m) ==
    IF m.form = "object" /\ Lower(m.kind) = "audiodata"
    THEN InboundAudio(c, m.data)
    ELSE /\ conn[c].pc = "open"
         /\ received[c] < MaxReceived
         /\ received' = [received EXCEPT ![c] = @ + 1]
         /\ lastOp' = CASE m.form = "invalid" -> Op("message", "bad_json", 0)
                        [] m.form = "array" -> Op("message", "error", 0)
                        [] OTHER ->
                             IF Lower(m.kind) = "audiometadata"
                             THEN Op("message", "metadata", 0)
                             ELSE Op("message", "ignored", 0)
         /\ UNCHANGED <<callVars, sttVars, pacerVars, recVars, synthVars,
                        llmVars, agentVars>>

\* ============================================= the capture callback in full
\* mic_callback with callState.muted = muted, self._tx_queue = q (None after
\* the teardown) holding n frames: returns at once when muted; inside the
\* try, full() on a missing queue raises and put_nowait on a full queue
\* raises, and both are caught and logged; otherwise the frame is appended.
QueueIsFull_never(n) == FALSE
QueueIsFull(n) == n >= TX_QUEUE_MAXSIZE
mic_callback(muted, q, n) ==
    IF muted THEN [res |-> "muted", n |-> n]
    ELSE IF q = None THEN [res |-> "logged", n |-> n]
    ELSE IF QueueIsFull(n) THEN [res |-> "full", n |-> n]
    ELSE IF n >= TX_QUEUE_MAXSIZE THEN [res |-> "logged", n |-> n]
    ELSE [res |-> "queued", n |-> n + 1]

\* The capture stream m delivers one frame.
MicFrame(m) ==
    LET q == ms.tx_queue
        r == mic_callback(callState.muted, q, IF q = None THEN 0 ELSE txq[q])
    IN  /\ m \in captureActive
        /\ txq' = IF q = None THEN txq ELSE [txq EXCEPT ![q] = r.n]
        /\ lastOp' = Op("mic", r.res, 0)
        /\ UNCHANGED <<callState, ms, stt, sttAvailable, auxVars, conn,
                       txTask, ttsTask, plays, tqs, captureActive, wavOpen,
                       sent>>

\* ============================================================ TTS services
\* A text is a sequence of characters of three classes: whitespace, a
\* character of a word, a sentence terminator followed by a break.
Texts == {<< >>, <<" ">>, <<"w">>, <<"w", ".", "w">>}
Voices == {"", "v1"}
Rates == {180}
\* What the engine does when invoked, and what ensure_16k_mono_wav does with
\* its output: return the path unchanged, convert to <base>_16k_mono.wav, or
\* raise because ffmpeg is missing.
EngineOutcomes == {"ok", "fail"}
NormOutcomes == {"same", "converted", "fail"}

\* `not text.strip()`
IsBlank(text) == \A i \in 1..Len(text) : text[i] = " "

\* len(normalize(preprocess_for_tts(text))): nothing for blank text; a word
\* begins a sentence when no word precedes it since the last terminator;
\* text in which no sentence is found is one sentence.
SentenceCount(text) ==
    LET starts == {i \in 1..Len(text) :
            /\ text[i] = "w"
            /\ \A j \in 1..(i - 1) :
                   text[j] = "w" => \E k \in (j + 1)..(i - 1) : text[k] = "."}
    IN  IF IsBlank(text) THEN 0
        ELSE IF starts = {} THEN 1
        ELSE Cardinality(starts)

\* cache_dir / f"{cache_key}_piper.wav": the key covers the text and the
\* synthesis parameters of the instance, not voice_id or rate.
PiperCachePath(text) ==
    [kind |-> "piper", text |-> text, voice |-> "", rate |-> 0, n |-> 0]
\* tempfile.mktemp(...) of call n, and what ensure_16k_mono_wav makes of it.
TempPath(n) == [NoPath EXCEPT !.kind = "tmp", !.n = n]
\* cache_dir / f"{cache_key}_raw.wav": the key covers voice_id, rate, text.
RawPath(text, vid, rate) ==
    [kind |-> "raw", text |-> text, voice |-> vid, rate |-> rate, n |-> 0]
\* ensure_16k_mono_wav(path) when it does not raise.
Normalized(path, norm) ==
    IF norm = "same" THEN path
    ELSE [path EXCEPT !.kind = IF path.kind = "raw" THEN "raw16k" ELSE "tmp16k"]

\* What a synthesize call leaves behind: its result, the files that exist,
\* the backends whose synthesize was called (with what each returned or
\* raised), and the engine invocations.
SynthResult(r, p, f, svc, pn, xn) ==
    [res |-> r, path |-> p, files |-> f,
     tried |-> IF svc = "" THEN << >>
               ELSE <<[svc |-> svc, res |-> r, path |-> p]>>,
     piper_n |-> pn, pyttsx3_n |-> xn]

\* PiperTTSService.synthesize.  One engine invocation per sentence; a failing
\* engine fails on the first sentence.  The temporary files are deleted in
\* the finally block, the converted final file of a single sentence is not.
PiperSynthesize(s, text, pe, norm) ==
    LET cached == PiperCachePath(text)
        tmp    == TempPath(s.calls + 1)
        final  == Normalized(tmp, norm)
    IN  IF ~s.piper_ok
        THEN SynthResult("RuntimeError", NoPath, s.files, "piper", 0, 0)
        ELSE IF IsBlank(text)
        THEN SynthResult("ValueError", NoPath, s.files, "piper", 0, 0)
        ELSE IF cached \in s.files
        THEN SynthResult("ok", cached, s.files, "piper", 0, 0)
        ELSE IF SentenceCount(text) = 0
        THEN SynthResult("NoSentences", NoPath, s.files, "piper", 0, 0)
        ELSE IF pe = "fail"
        THEN SynthResult("EngineError", NoPath, s.files, "piper", 1, 0)
        ELSE IF norm = "fail"
        THEN SynthResult("ConversionError", NoPath, s.files, "piper",
                         1, 0)
        ELSE IF SentenceCount(text) = 1
        THEN SynthResult("ok", final,
                         s.files \cup {cached} \cup ({final} \ {tmp}),
                         "piper", 1, 0)
        ELSE SynthResult("ok", cached, s.files \cup {cached}, "piper",
                         SentenceCount(text), 0)

\* Pyttsx3TTSService.synthesize: the engine writes raw_wav on every call.
Pyttsx3Synthesize(s, text, vid, rate, xe, norm) ==
    LET raw == RawPath(text, vid, rate)
    IN  IF ~s.pyttsx3_ok
        THEN SynthResult("RuntimeError", NoPath, s.files, "pyttsx3", 0, 0)
        ELSE IF IsBlank(text)
        THEN SynthResult("ValueError", NoPath, s.files, "pyttsx3", 0, 0)
        ELSE IF xe = "fail"
        THEN SynthResult("EngineError", NoPath, s.files, "pyttsx3", 0, 1)
        ELSE IF norm = "fail"
        THEN SynthResult("ConversionError", NoPath, s.files \cup {raw},
                         "pyttsx3", 0, 1)
        ELSE SynthResult("ok", Normalized(raw, norm),
                         s.files \cup {raw, Normalized(raw, norm)},
                         "pyttsx3", 0, 1)

\* CompositeTTSService.synthesize: `except Exception` after the primary.
FallsBack_always(primary) == TRUE
FallsBack(primary) == primary.res # "ok"

CompositeSynthesize(s, text, vid, rate, pe, xe, norm) ==
    LET none    == SynthResult("none", NoPath, s.files, "", 0, 0)
        primary == IF s.piper_ok THEN PiperSynthesize(s, text, pe, norm)
                   ELSE none
        s2      == [s EXCEPT !.files = primary.files]
        second  == Pyttsx3Synthesize(s2, text, vid, rate, xe, norm)
    IN  IF IsBlank(text)
        THEN SynthResult("ValueError", NoPath, s.files, "", 0, 0)
        ELSE IF s.piper_ok /\ ~FallsBack(primary)
        THEN primary
        ELSE IF s.pyttsx3_ok
        THEN [second EXCEPT !.tried = primary.tried \o @,
                            !.piper_n = primary.piper_n]
        ELSE [SynthResult("RuntimeError", NoPath, primary.files, "",
                          primary.piper_n, 0)
                 EXCEPT !.tried = primary.tried]

\* The outcome of a call becomes the last call, the last call the one before.
Record(s, svc, text, vid, rate, r) ==
    [s EXCEPT !.files = r.files, !.calls = @ + 1, !.prev = s.last,
              !.last = [svc |-> svc, text |-> text, voice |-> vid,
                        rate |-> rate, res |-> r.res, path |-> r.path,
                        tried |-> r.tried, piper_n |-> r.piper_n,
                        pyttsx3_n |-> r.pyttsx3_n]]

\* CompositeTTSService.__init__: each backend finds out whether it can run.
TtsConstruct(pa, xa) ==
    /\ synth.pc = "idle"
    /\ synth' = ReadySynth(pa, xa)
    /\ lastOp' = Op("tts_init", "", 0)
    /\ UNCHANGED <<callVars, sttVars, pacerVars, recVars, msgVars, llmVars,
                   agentVars>>

SynthCall(svc, text, vid, rate, r) ==
    /\ synth.pc = "ready"
    /\ synth.calls < MaxCalls
    /\ synth' = Record(synth, svc, text, vid, rate, r)
    /\ lastOp' = Op("synthesize", r.res, 0)
    /\ UNCHANGED <<callVars, sttVars, pacerVars, recVars, msgVars, llmVars,
                   agentVars>>

PiperCall(text, vid, rate, pe, norm) ==
    SynthCall("piper", text, vid, rate, PiperSynthesize(synth, text, pe, norm))

Pyttsx3Call(text, vid, rate, xe, norm) ==
    SynthCall("pyttsx3", text, vid, rate,
              Pyttsx3Synthesize(synth, text, vid, rate, xe, norm))

CompositeCall(text, vid, rate, pe, xe, norm) ==
    SynthCall("composite", text, vid, rate,
              CompositeSynthesize(synth, text, vid, rate, pe, xe, norm))

\* ========================================== OllamaLLM._generate_stream
\* A string is a sequence of characters; "S" and "T" occur in stop sequences.
Alphabet == {"a", "S", "T"}
Strings == UNION {[1..k -> Alphabet] : k \in 0..MaxText}
RECURSIVE Concat(_)
Concat(cs) == IF cs = << >> THEN << >> ELSE Head(cs) \o Concat(Tail(cs))
\* The "response" fields of the lines of one response body, in order.
ChunkLists ==
    UNION {{cs \in [1..m -> Strings] : Len(Concat(cs)) <= MaxText} :
           m \in 0..MaxText}
\* stop or settings.OLLAMA_STOP
StopLists == {<< >>, << <<"S", "T">> >>, << <<"T">>, <<"S">> >>}
\* What session.post does: raise a client error or a timeout, or give a
\* response with a status.
Statuses == {200, 404, 500, 502, 503, 504}
PostOutcomes ==
    {[exc |-> e, status |-> 0] : e \in {"ClientError", "TimeoutError"}}
    \cup {[exc |-> "", status |-> st] : st \in Statuses}

\* `stop_seq in collected_text` and collected_text.find(stop_seq)
OccursAt(text, t, i) ==
    /\ i + Len(t) - 1 <= Len(text)
    /\ \A j \in 1..Len(t) : text[i + j - 1] = t[j]
Contains(text, t) == \E i \in 1..(Len(text) + 1) : OccursAt(text, t, i)
Find(text, t) ==
    CHOOSE i \in 1..(Len(text) + 1) :
        OccursAt(text, t, i) /\ \A j \in 1..(i - 1) : ~OccursAt(text, t, j)

\* `for stop_seq in stop_sequences: if stop_seq in collected_text`: the
\* first sequence of the list that occurs, 0 when none does.
FirstListed(text, stops) ==
    LET hits == {k \in 1..Len(stops) : Contains(text, stops[k])}
    IN  IF hits = {} THEN 0
        ELSE CHOOSE k \in hits : \A h \in hits : k <= h

\* delay = base_delay * (2 ** (retries - 1))
Backoff_linear(retries) == base_delay * retries
Backoff(retries) == base_delay * 2 ^ (retries - 1)

\* `except (aiohttp.ClientError, asyncio.TimeoutError)`, reached after the
\* response, if any, was released: count the retry, give up after
\* max_retries, else sleep before the next request.
Retry(l) ==
    LET retries == l.retries + 1
    IN  IF retries > max_retries
        THEN [l EXCEPT !.retries = retries, !.pc = "raised", !.status = 0,
                       !.cause = "retries"]
        ELSE [l EXCEPT !.retries = retries, !.pc = "sleep", !.status = 0,
                       !.slept = Append(@, Backoff(retries))]

\* _generate_stream is entered: no request made yet.
LlmStart(lines, stops) ==
    /\ llm.pc = "idle"
    /\ llm' = NewLlm(lines, stops)
    /\ lastOp' = Op("llm_start", "", 0)
    /\ UNCHANGED <<callVars, sttVars, pacerVars, recVars, msgVars, synthVars,
                   agentVars>>

\* One pass of the while loop up to the status test of the response.
LlmPost(outcome) ==
    /\ llm.pc = "post"
    /\ LET l == [llm EXCEPT !.requests = @ + 1,
                            !.status = outcome.status]
       IN  llm' = IF outcome.exc # "" \/ outcome.status \in {502, 503, 504}
                  THEN Retry(l)
                  ELSE IF outcome.status # 200
                  THEN [l EXCEPT !.pc = "raised", !.cause = "status"]
                  ELSE [l EXCEPT !.pc = "stream", !.pos = 0,
                                 !.collected_text = << >>]
    /\ lastOp' = Op("llm_post", "", 0)
    /\ UNCHANGED <<callVars, sttVars, pacerVars, recVars, msgVars, synthVars,
                   agentVars>>

\* The body of `async for line in response.content` for one line, or the end
\* of the body.
LlmLine ==
    /\ llm.pc = "stream"
    /\ IF llm.pos = Len(llm.lines)
       THEN llm' = [llm EXCEPT !.pc = "done"]
       ELSE LET chunk     == llm.lines[llm.pos + 1]
                collected == llm.collected_text \o chunk
                k         == FirstListed(collected, llm.stop_sequences)
                final     == SubSeq(collected, 1,
                                    Find(collected, llm.stop_sequences[k]) - 1)
            IN  llm' = IF chunk = << >>
                       THEN [llm EXCEPT !.pos = @ + 1]
                       ELSE IF k # 0
                       THEN [llm EXCEPT !.pos = @ + 1, !.pc = "done",
                                        !.collected_text = collected,
                                        !.yielded =
                                            IF final # << >>
                                            THEN Append(@, final) ELSE @]
                       ELSE [llm EXCEPT !.pos = @ + 1,
                                        !.collected_text = collected,
                                        !.yielded = Append(@, chunk)]
    /\ lastOp' = Op("llm_line", "", 0)
    /\ UNCHANGED <<callVars, sttVars, pacerVars, recVars, msgVars, synthVars,
                   agentVars>>

\* Reading the body raises a client error or times out.
LlmStreamError ==
    /\ llm.pc = "stream"
    /\ llm' = Retry(llm)
    /\ lastOp' = Op("llm_post", "", 0)
    /\ UNCHANGED <<callVars, sttVars, pacerVars, recVars, msgVars, synthVars,
                   agentVars>>

\* asyncio.sleep(delay) returns.
LlmWake ==
    /\ llm.pc = "sleep"
    /\ llm' = [llm EXCEPT !.pc = "post"]
    /\ lastOp' = Op("llm_wake", "", 0)
    /\ UNCHANGED <<callVars, sttVars, pacerVars, recVars, msgVars, synthVars,
                   agentVars>>

\* ========================================================= llm_respond_text
\* A chunk is a sequence of words; the persona's blocklist names one of them.
Words == {"hello", "there", "card"}
Blocklist == {"card"}
ReplyChunks == {<<w>> : w \in Words} \cup {<<"hello", "card">>}
Replies == UNION {[1..n -> ReplyChunks] : n \in 0..MaxReply}
\* What llm.generate(...) is to `async for`: an asynchronous iterator (a
\* plain function returning one, as the test doubles do) or the coroutine
\* that OllamaLLM.generate, an `async def`, returns when called.
GenerateKinds == {"iterator", "coroutine"}

\* Guardrails.is_output_allowed: empty text passes, a blocklist pattern
\* found anywhere in the text rejects it.
is_output_allowed(chunk) ==
    chunk = << >> \/ \A i \in 1..Len(chunk) : chunk[i] \notin Blocklist

\* llm_respond_text is called; nothing runs until the first __anext__.
RespondStart(kind, chunks) ==
    /\ respond.pc = "idle"
    /\ respond' = [pc |-> "run", kind |-> kind, chunks |-> chunks, pos |-> 0,
                   yielded |-> << >>, error |-> ""]
    /\ lastOp' = Op("respond_start", "", 0)
    /\ UNCHANGED <<callVars, sttVars, pacerVars, recVars, msgVars, synthVars,
                   llmVars, lil>>

\* One pass of `async for chunk in llm.generate(...)`: `async for` over a
\* coroutine raises TypeError; otherwise the next chunk is yielded or
\* replaced by the marker, and the end of the iterator ends the reply.
RespondStep ==
    /\ respond.pc = "run"
    /\ respond' =
           IF respond.kind = "coroutine"
           THEN [respond EXCEPT !.pc = "raised", !.error = "TypeError"]
           ELSE IF respond.pos = Len(respond.chunks)
           THEN [respond EXCEPT !.pc = "done"]
           ELSE LET chunk == respond.chunks[respond.pos + 1]
                IN  IF is_output_allowed(chunk)
                    THEN [respond EXCEPT !.pos = @ + 1,
                                         !.yielded = Append(@, chunk)]
                    ELSE [respond EXCEPT !.pos = @ + 1, !.pc = "done",
                                         !.yielded = Append(@, <<"[blocked]">>)]
    /\ lastOp' = Op("respond_step", "", 0)
    /\ UNCHANGED <<callVars, sttVars, pacerVars, recVars, msgVars, synthVars,
                   llmVars, lil>>

\* The generation raises LLMUnavailable: `except LLMUnavailable: raise`.
RespondUnavailable ==
    /\ respond.pc = "run"
    /\ respond.kind = "iterator"
    /\ respond' = [respond EXCEPT !.pc = "raised", !.error = "LLMUnavailable"]
    /\ lastOp' = Op("respond_step", "", 0)
    /\ UNCHANGED <<callVars, sttVars, pacerVars, recVars, msgVars, synthVars,
                   llmVars, lil>>

\* ============================================ LinkedInLearningAPIClient.get
\* What session.get and raise_for_status produce in one attempt: a response
\* with a status (a 429 with its Retry-After header: absent, not a number,
\* a number of seconds, a negative number), or a RequestException.  For an
\* HTTPError, `truthy` is the truth value of error.response.
LilHeaders == {"absent", "invalid", "seconds", "negative"}
LilOutcomes ==
    {[kind |-> "response", status |-> 200, header |-> "absent",
      truthy |-> TRUE]}
    \cup {[kind |-> "response", status |-> 429, header |-> h,
           truthy |-> TRUE] : h \in LilHeaders}
    \cup {[kind |-> "response", status |-> st, header |-> "absent",
           truthy |-> t] : st \in {401, 500}, t \in BOOLEAN}
    \cup {[kind |-> k, status |-> 0, header |-> "absent", truthy |-> FALSE] :
          k \in {"ConnectionError", "Timeout", "RequestException"}}

\* _get_retry_delay for a header that does not make time.sleep raise: the
\* header's seconds (1 here), else the larger of the backoff and 60 s.
get_retry_delay(header, attempt) ==
    IF header = "seconds" THEN 1
    ELSE IF retry_delay * 2 ^ attempt > default_delay
    THEN retry_delay * 2 ^ attempt
    ELSE default_delay

\* _is_retryable_error
is_retryable_error(o) ==
    IF o.kind \in {"ConnectionError", "Timeout"} THEN TRUE
    ELSE IF o.kind = "response"
    THEN o.truthy /\ (o.status >= 500 \/ o.status = 429)
    ELSE FALSE

\* `if attempt == self.max_retries` of the 429 branch.
LastAttempt_never(l) == FALSE
LastAttempt(l) == l.attempt = l.max_retries

\* get is entered: `for attempt in range(self.max_retries + 1)`.
LilGet(mr) ==
    /\ lil.pc = "idle"
    /\ lil' = [pc |-> "request", max_retries |-> mr, attempt |-> 0,
               requests |-> 0, sleeps |-> 0, delay |-> 0, error |-> ""]
    /\ lastOp' = Op("lil_get", "", 0)
    /\ UNCHANGED <<callVars, sttVars, pacerVars, recVars, msgVars, synthVars,
                   llmVars, respond>>

\* One pass of the loop body up to return, raise or time.sleep.
LilRequest(o) ==
    /\ lil.pc = "request"
    /\ LET l == [lil EXCEPT !.requests = @ + 1]
       IN  lil' =
               IF o.kind = "response" /\ o.status = 429
               THEN IF LastAttempt(l)
                    THEN [l EXCEPT !.pc = "raised", !.error = "RateLimit"]
                    ELSE IF o.header = "negative"
                    THEN [l EXCEPT !.pc = "raised", !.error = "ValueError"]
                    ELSE [l EXCEPT !.pc = "sleep",
                                   !.delay = get_retry_delay(o.header,
                                                             l.attempt)]
               ELSE IF o.kind = "response" /\ o.status < 400
               THEN [l EXCEPT !.pc = "returned"]
               ELSE IF l.attempt = l.max_retries
               THEN [l EXCEPT !.pc = "raised", !.error = "Failed"]
               ELSE IF is_retryable_error(o)
               THEN [l EXCEPT !.pc = "sleep",
                              !.delay = retry_delay * 2 ^ l.attempt]
               ELSE [l EXCEPT !.pc = "raised", !.error = "NonRetryable"]
    /\ lastOp' = Op("lil_request", "", 0)
    /\ UNCHANGED <<callVars, sttVars, pacerVars, recVars, msgVars, synthVars,
                   llmVars, respond>>

\* time.sleep returns; the loop takes the next attempt or runs out.
LilWake ==
    /\ lil.pc = "sleep"
    /\ lil' = IF lil.attempt + 1 <= lil.max_retries
              THEN [lil EXCEPT !.pc = "request", !.attempt = @ + 1,
                               !.sleeps = @ + 1]
              ELSE [lil EXCEPT !.pc = "raised", !.error = "Unexpected",
                               !.attempt = @ + 1, !.sleeps = @ + 1]
    /\ lastOp' = Op("lil_wake", "", 0)
    /\ UNCHANGED <<callVars, sttVars, pacerVars, recVars, msgVars, synthVars,
                   llmVars, respond>>

\* ------------------------------------------------------------ specification
\* The inputs of a request or of a synthesis: a source of n frames is only
\* read when every earlier check passed, so n is drawn for those inputs
\* alone (and 0 stands for it elsewhere).
PlayInputs == {<<TRUE, TRUE, n>> : n \in 0..MaxFrames}
                  \cup {<<FALSE, TRUE, 0>>, <<TRUE, FALSE, 0>>}
SayInputs == {<<TRUE, n>> : n \in 0..MaxFrames} \cup {<<FALSE, 0>>}
TurnInputs == {<<TRUE, TRUE, n>> : n \in 0..MaxFrames}
                  \cup {<<FALSE, TRUE, 0>>, <<TRUE, FALSE, 0>>}

Next ==
    \/ \E ok \in BOOLEAN : IncomingCall(ok)
    \/ \E on \in BOOLEAN : ApiMute(on)
    \/ \E p \in Plays, i \in PlayInputs : ApiPlay(p, i[1], i[2], i[3])
    \/ \E p \in Plays, ttsAvailable \in BOOLEAN, textOk \in BOOLEAN :
           ApiSay(p, ttsAvailable, textOk)
    \/ \E p \in Plays, i \in SayInputs : SaySynthDone(p, i[1], i[2])
    \/ \E p \in Plays : PlayWake(p)
    \/ \E c \in Conns, micOk \in BOOLEAN : WsConnect(c, micOk)
    \/ \E c \in Conns : ChannelClose(c)
    \/ \E m \in Conns : MicCallback(m)
    \/ SttEmit
    \/ \E c \in Conns : TxStart(c)
    \/ \E c \in Conns : TxGet(c)
    \/ \E c \in Conns : TxCancelled(c)
    \/ \E c \in Conns : TtsStart(c)
    \/ \E c \in Conns : TtsGet(c)
    \/ \E c \in Conns, i \in TurnInputs : TtsSynthDone(c, i[1], i[2], i[3])
    \/ \E c \in Conns : TtsWake(c)
    \/ \E c \in Conns : TtsCancelled(c)
    \/ \E c \in Conns, stopOk \in BOOLEAN : CleanupBegin(c, stopOk)
    \/ \E c \in Conns, stopOk \in BOOLEAN : CleanupAfterTx(c, stopOk)
    \/ \E c \in Conns : CleanupAfterTts(c)

Spec == Init /\ [][Next]_vars

\* One call: a single media channel attaches, with the whole control
\* surface, both tasks and the teardown.
NextCall ==
    \/ \E ok \in BOOLEAN : IncomingCall(ok)
    \/ \E on \in BOOLEAN : ApiMute(on)
    \/ \E p \in Plays, i \in PlayInputs : ApiPlay(p, i[1], i[2], i[3])
    \/ \E p \in Plays, ttsAvailable \in BOOLEAN, textOk \in BOOLEAN :
           ApiSay(p, ttsAvailable, textOk)
    \/ \E p \in Plays, i \in SayInputs : SaySynthDone(p, i[1], i[2])
    \/ \E p \in Plays : PlayWake(p)
    \/ \E micOk \in BOOLEAN : WsConnect(1, micOk)
    \/ \E c \in Conns : ChannelClose(c)
    \/ \E m \in Conns : MicCallback(m)
    \/ SttEmit
    \/ \E c \in Conns : TxStart(c)
    \/ \E c \in Conns : TxGet(c)
    \/ \E c \in Conns : TxCancelled(c)
    \/ \E c \in Conns : TtsStart(c)
    \/ \E c \in Conns : TtsGet(c)
    \/ \E c \in Conns, i \in TurnInputs : TtsSynthDone(c, i[1], i[2], i[3])
    \/ \E c \in Conns : TtsWake(c)
    \/ \E c \in Conns : TtsCancelled(c)
    \/ \E c \in Conns, stopOk \in BOOLEAN : CleanupBegin(c, stopOk)
    \/ \E c \in Conns, stopOk \in BOOLEAN : CleanupAfterTx(c, stopOk)
    \/ \E c \in Conns : CleanupAfterTts(c)

SpecCall == Init /\ [][NextCall]_vars

\* One call seen from the control routes: the channel, the routes, the
\* playbacks, both tasks and the teardown, with no audio captured (the
\* microphone callback never fires, so the sender stays on its queue get).
NextControl ==
    \/ \E ok \in BOOLEAN : IncomingCall(ok)
    \/ \E on \in BOOLEAN : ApiMute(on)
    \/ \E p \in Plays, i \in PlayInputs : ApiPlay(p, i[1], i[2], i[3])
    \/ \E p \in Plays, ttsAvailable \in BOOLEAN, textOk \in BOOLEAN :
           ApiSay(p, ttsAvailable, textOk)
    \/ \E p \in Plays, i \in SayInputs : SaySynthDone(p, i[1], i[2])
    \/ \E p \in Plays : PlayWake(p)
    \/ \E micOk \in BOOLEAN : WsConnect(1, micOk)
    \/ \E c \in Conns : ChannelClose(c)
    \/ SttEmit
    \/ \E c \in Conns : TxStart(c)
    \/ \E c \in Conns : TxCancelled(c)
    \/ \E c \in Conns : TtsStart(c)
    \/ \E c \in Conns : TtsGet(c)
    \/ \E c \in Conns, i \in TurnInputs : TtsSynthDone(c, i[1], i[2], i[3])
    \/ \E c \in Conns : TtsWake(c)
    \/ \E c \in Conns : TtsCancelled(c)
    \/ \E c \in Conns, stopOk \in BOOLEAN : CleanupBegin(c, stopOk)
    \/ \E c \in Conns, stopOk \in BOOLEAN : CleanupAfterTx(c, stopOk)
    \/ \E c \in Conns : CleanupAfterTts(c)

SpecControl == Init /\ [][NextControl]_vars

\* Several channels, one after another or overlapping, with the tasks and
\* the teardown; the only playbacks are the TTS-consumer's turns.
NextCalls ==
    \/ \E c \in Conns, micOk \in BOOLEAN : WsConnect(c, micOk)
    \/ \E c \in Conns : ChannelClose(c)
    \/ \E m \in Conns : MicCallback(m)
    \/ SttEmit
    \/ \E c \in Conns : TxStart(c)
    \/ \E c \in Conns : TxGet(c)
    \/ \E c \in Conns : TxCancelled(c)
    \/ \E c \in Conns : TtsStart(c)
    \/ \E c \in Conns : TtsGet(c)
    \/ \E c \in Conns, i \in TurnInputs : TtsSynthDone(c, i[1], i[2], i[3])
    \/ \E c \in Conns : TtsWake(c)
    \/ \E c \in Conns : TtsCancelled(c)
    \/ \E c \in Conns, stopOk \in BOOLEAN : CleanupBegin(c, stopOk)
    \/ \E c \in Conns, stopOk \in BOOLEAN : CleanupAfterTx(c, stopOk)
    \/ \E c \in Conns : CleanupAfterTts(c)

SpecCalls == Init /\ [][NextCalls]_vars

\* The call-control surface: answering, hanging up and muting, around the
\* attachment and teardown of the media channel.
NextHangup ==
    \/ \E ok \in BOOLEAN : IncomingCall(ok)
    \/ \E ok \in BOOLEAN : ApiHangup(ok)
    \/ \E on \in BOOLEAN : ApiMute(on)
    \/ \E c \in Conns, micOk \in BOOLEAN : WsConnect(c, micOk)
    \/ \E c \in Conns : ChannelClose(c)
    \/ \E c \in Conns : TxStart(c)
    \/ \E c \in Conns : TxCancelled(c)
    \/ \E c \in Conns : TtsStart(c)
    \/ \E c \in Conns : TtsCancelled(c)
    \/ \E c \in Conns, stopOk \in BOOLEAN : CleanupBegin(c, stopOk)
    \/ \E c \in Conns, stopOk \in BOOLEAN : CleanupAfterTx(c, stopOk)
    \/ \E c \in Conns : CleanupAfterTts(c)

SpecHangup == Init /\ [][NextHangup]_vars

\* The STT service on its own, driven through its interface the way the
\* orchestrator drives it, with its worker threads and a transcript consumer.
NextStt ==
    \/ SttStart
    \/ ProcessAudioChunk
    \/ SttStopBegin
    \/ SttStopEnd
    \/ \E w \in Runs : WorkerTake(w)
    \/ \E w \in Runs, final \in BOOLEAN, raw \in RawTexts :
           WorkerAccept(w, final, raw)
    \/ \E w \in Runs : WorkerEmit(w)
    \/ TranscriptGet

SpecStt == Init /\ [][NextStt]_vars

\* One run of the service with a backlog building up in the work queue.
NextSttLoad ==
    \/ SttStart
    \/ ProcessAudioChunk
    \/ InboundBurst
    \/ \E w \in Runs : WorkerTake(w)
    \/ \E w \in Runs, final \in BOOLEAN, raw \in RawTexts :
           WorkerAccept(w, final, raw)
    \/ \E w \in Runs : WorkerEmit(w)

SpecSttLoad == Init /\ [][NextSttLoad]_vars

\* Scheduling: the event loop resumes stop_processing when the join returns,
\* and a worker thread that is not inside the recognizer runs on.
SpecSttLive ==
    /\ SpecStt
    /\ WF_vars(SttStopEnd)
    /\ \A w \in Runs : WF_vars(WorkerTake(w)) /\ WF_vars(WorkerEmit(w))

\* Source lengths in sample frames: those at and next to a whole number of
\* frames.
SampleCounts ==
    {n \in 0..MaxSamples :
        n % samples_per_frame \in {0, 1, samples_per_frame - 1}}

\* play_audio_file calls one after the other, each to its end.
NextPacer ==
    \/ \E f \in Formats, n \in SampleCounts, sendOk \in BOOLEAN,
          d \in SendTimes :
           PacedPlayBegin(f, n, sendOk, d)
    \/ \E sendOk \in BOOLEAN, d \in SendTimes, e \in Overshoots :
           PacedPlayWake(sendOk, d, e)

SpecPacer == Init /\ [][NextPacer]_vars

\* The /ws endpoints with their inbound messages: channels attach, receive
\* audioData messages and are torn down.
NextInbound ==
    \/ \E c \in Conns, micOk \in BOOLEAN : WsConnect(c, micOk)
    \/ \E c \in Conns, b64_data \in Payloads : InboundAudio(c, b64_data)
    \/ \E c \in Conns : ChannelClose(c)
    \/ \E c \in Conns : TxStart(c)
    \/ \E c \in Conns : TxCancelled(c)
    \/ \E c \in Conns : TtsStart(c)
    \/ \E c \in Conns : TtsCancelled(c)
    \/ \E c \in Conns, stopOk \in BOOLEAN : CleanupBegin(c, stopOk)
    \/ \E c \in Conns, stopOk \in BOOLEAN : CleanupAfterTx(c, stopOk)
    \/ \E c \in Conns : CleanupAfterTts(c)

SpecInbound == Init /\ [][NextInbound]_vars

\* One /ws endpoint with its message loop and its teardown.
NextMessages ==
    \/ \E micOk \in BOOLEAN : WsConnect(1, micOk)
    \/ \E m \in Messages : InboundMessage(1, m)
    \/ \E c \in Conns : ChannelClose(c)
    \/ \E c \in Conns : TxStart(c)
    \/ \E c \in Conns : TxCancelled(c)
    \/ \E c \in Conns : TtsStart(c)
    \/ \E c \in Conns : TtsCancelled(c)
    \/ \E c \in Conns, stopOk \in BOOLEAN : CleanupBegin(c, stopOk)
    \/ \E c \in Conns, stopOk \in BOOLEAN : CleanupAfterTx(c, stopOk)
    \/ \E c \in Conns : CleanupAfterTts(c)

SpecMessages == Init /\ [][NextMessages]_vars

\* One channel that stays attached: the STT service emits transcripts and
\* the TTS consumer takes them, turn after turn, while the operator mutes
\* and unmutes.  A source is drawn that
\* fits in what the run may still send.
NextTurns ==
    \/ \E ok \in BOOLEAN : IncomingCall(ok)
    \/ \E on \in BOOLEAN : ApiMute(on)
    \/ \E micOk \in BOOLEAN : WsConnect(1, micOk)
    \/ SttEmit
    \/ TtsStart(1)
    \/ TtsGet(1)
    \/ \E i \in TurnInputs :
           /\ Len(sent) + i[3] <= MaxSent
           /\ TtsSynthDone(1, i[1], i[2], i[3])
    \/ TtsWake(1)

SpecTurns == Init /\ [][NextTurns]_vars

\* Scheduling: the event loop runs a task that is ready, synthesize returns
\* or raises, and the pacer's sleep ends.
SpecTurnsLive ==
    /\ SpecTurns
    /\ WF_vars(TtsStart(1))
    /\ WF_vars(TtsGet(1))
    /\ WF_vars(\E i \in TurnInputs :
                   /\ Len(sent) + i[3] <= MaxSent
                   /\ TtsSynthDone(1, i[1], i[2], i[3]))
    /\ WF_vars(TtsWake(1))

\* One channel with the capture stream delivering frames while the
\* operator mutes and unmutes, up to the teardown.
NextMic ==
    \/ \E ok \in BOOLEAN : IncomingCall(ok)
    \/ \E on \in BOOLEAN : ApiMute(on)
    \/ \E micOk \in BOOLEAN : WsConnect(1, micOk)
    \/ \E m \in Conns : MicFrame(m)
    \/ \E c \in Conns : ChannelClose(c)
    \/ \E c \in Conns : TxStart(c)
    \/ \E c \in Conns : TxGet(c)
    \/ \E c \in Conns : TxCancelled(c)
    \/ \E c \in Conns : TtsStart(c)
    \/ \E c \in Conns : TtsCancelled(c)
    \/ \E c \in Conns, stopOk \in BOOLEAN : CleanupBegin(c, stopOk)
    \/ \E c \in Conns, stopOk \in BOOLEAN : CleanupAfterTx(c, stopOk)
    \/ \E c \in Conns : CleanupAfterTts(c)

SpecMic == Init /\ [][NextMic]_vars

\* One channel during a call: the capture stream feeds the sender while
\* control-surface playbacks and TTS-consumer turns run.
NextPlayback ==
    \/ \E ok \in BOOLEAN : IncomingCall(ok)
    \/ \E p \in Plays, i \in PlayInputs : ApiPlay(p, i[1], i[2], i[3])
    \/ \E p \in Plays : PlayWake(p)
    \/ \E micOk \in BOOLEAN : WsConnect(1, micOk)
    \/ MicCallback(1)
    \/ SttEmit
    \/ TxStart(1)
    \/ TxGet(1)
    \/ TtsStart(1)
    \/ TtsGet(1)
    \/ \E i \in TurnInputs : TtsSynthDone(1, i[1], i[2], i[3])
    \/ TtsWake(1)

SpecPlayback == Init /\ [][NextPlayback]_vars

\* The same with the operator muting and unmuting, the requests recorded.
NextMute ==
    \/ \E on \in BOOLEAN : MuteRequest(on)
    \/ NextPlayback

SpecMute == Init /\ [][NextMute]_vars

\* The TTS services on their own: construction, then calls on the composite
\* service and on each backend.
NextSynth ==
    \/ \E pa \in BOOLEAN, xa \in BOOLEAN : TtsConstruct(pa, xa)
    \/ \E text \in Texts, vid \in Voices, rate \in Rates,
          pe \in EngineOutcomes, norm \in NormOutcomes :
            PiperCall(text, vid, rate, pe, norm)
    \/ \E text \in Texts, vid \in Voices, rate \in Rates,
          xe \in EngineOutcomes, norm \in NormOutcomes :
            Pyttsx3Call(text, vid, rate, xe, norm)
    \/ \E text \in Texts, vid \in Voices, rate \in Rates,
          pe \in EngineOutcomes, xe \in EngineOutcomes,
          norm \in NormOutcomes :
            CompositeCall(text, vid, rate, pe, xe, norm)

SpecSynth == Init /\ [][NextSynth]_vars

\* One streaming generation of OllamaLLM.
NextLlm ==
    \/ \E lines \in ChunkLists, stops \in StopLists : LlmStart(lines, stops)
    \/ \E outcome \in PostOutcomes : LlmPost(outcome)
    \/ LlmLine
    \/ LlmStreamError
    \/ LlmWake

SpecLlm == Init /\ [][NextLlm]_vars

\* One guarded reply.
NextRespond ==
    \/ \E kind \in GenerateKinds, chunks \in Replies :
           RespondStart(kind, chunks)
    \/ RespondStep
    \/ RespondUnavailable

SpecRespond == Init /\ [][NextRespond]_vars

\* One GET of the LinkedIn Learning client.
NextLil ==
    \/ \E mr \in 0..MaxRetries : LilGet(mr)
    \/ \E o \in LilOutcomes : LilRequest(o)
    \/ LilWake

SpecLil == Init /\ [][NextLil]_vars
\* time.sleep returns and the server answers.
SpecLilLive ==
    /\ SpecLil
    /\ WF_vars(LilWake)
    /\ WF_vars(\E o \in LilOutcomes : LilRequest(o))

\* ================================================================ properties
InTurn(t) == t.st \in {"synth", "playing"}
CleanupDone == lastOp = Op("cleanup", "done", 0)

\* C1: within one call (one websocket) the sequenceNumbers of the audioData
\* messages are strictly increasing in send order, for every interleaving of
\* the sender task, TTS-consumer turns and control-surface playbacks.
C1_SeqStrictlyIncreasing ==
    \A i \in 1..Len(sent) : \A j \in 1..Len(sent) :
        (i < j /\ sent[i].ws = sent[j].ws) => sent[i].seq < sent[j].seq

\* C2: whenever a playback is in progress (a play_audio_file between its
\* start and its cleanup, or a TTS-consumer turn) callState.muted is true.
C2_MutedDuringPlayback ==
    ((\E p \in Plays : plays[p].st = "playing")
        \/ (\E c \in Conns : InTurn(ttsTask[c])))
    => callState.muted

\* C3: when play_audio_file or a TTS-consumer turn ends (return, exception
\* or cancellation) callState.muted is the value it had just before the
\* operation began.  A play_audio_file that ends in the step it began in
\* leaves muted as it was; a turn that is followed at once by the next turn
\* hands the restored value to that turn as its was_muted.
C3_Step ==
    /\ \A p \in Plays :
           (plays[p].st = "playing" /\ plays'[p].st = "free")
           => callState'.muted = plays[p].was
    /\ (lastOp'.op = "play_audio_file"
           /\ ~\E p \in Plays : plays[p].st = "playing" /\ plays'[p].st = "free")
       => callState'.muted = callState.muted
    /\ lastOp'.op = "tts_turn"
       => IF InTurn(ttsTask'[lastOp'.id])
          THEN ttsTask'[lastOp'.id].was = ttsTask[lastOp'.id].was
          ELSE callState'.muted = ttsTask[lastOp'.id].was
C3_MuteRestored == [][C3_Step]_vars

\* C3 witness: a TTS-consumer turn was ended by cancellation and the forced
\* mute was taken back.
C3_Witness ==
    /\ lastOp.op = "tts_turn"
    /\ lastOp.res = "cancelled"
    /\ ~callState.muted

\* C4: once stop_streaming has returned, no sender task and no TTS-consumer
\* task is still running.
C4_NoTaskAfterStop ==
    CleanupDone =>
        \A c \in Conns : /\ txTask[c].st \in {"none", "done"}
                         /\ ttsTask[c].st \in {"none", "done"}

\* C5: stop_streaming returns without error and leaves CallState cleared
\* (channel None, call handle None, sequence number 0, not muted), also
\* when it is called again with no start in between.
C5_ClearedAfterStop ==
    CleanupDone =>
        callState = [ws |-> None, seq |-> 0, muted |-> FALSE,
                     call_connection_id |-> NoCall]

\* C6: callState.ws is non-None exactly while a media channel is attached
\* (from accept until the endpoint has finished its cleanup).
C6_ChannelIffAttached ==
    (callState.ws # None) <=> (\E c \in Conns : conn[c].pc \notin {"idle", "done"})

\* C7: when a new media channel attaches and streaming starts,
\* callState.seq is 0.
C7_SeqZeroAtCallStart ==
    lastOp = Op("ws_connect", "started", 0) => callState.seq = 0

\* C8: start_streaming while the orchestrator is Streaming (started, and no
\* stop_streaming since) changes nothing: no recording, STT run, task or
\* queue is created or replaced.
Streaming ==
    /\ ms.tx_task # None
    /\ \A c \in Conns : conn[c].pc \notin {"await_tx", "await_tts"}
C8_Step ==
    (Streaming /\ \E c \in Conns, micOk \in BOOLEAN : WsConnect(c, micOk))
    => UNCHANGED <<ms, stt, txTask, ttsTask, txq, tqs, captureActive, wavOpen>>
C8_StartWhileStreamingNoOp == [][C8_Step]_vars

\* C9: whatever step of stop_streaming fails, the others still run: after
\* it the recording sink is closed and the capture stream is stopped.
C9_TeardownComplete ==
    CleanupDone =>
        /\ ms.wav_writer = None
        /\ wavOpen = {}
        /\ captureActive = {}

\* C10: mute, play and say invoked with no active call answer 409 and
\* change nothing (CallState, frames sent, requests in flight, streamer),
\* whatever their arguments and the TTS availability.
C10_Step ==
    ((callState.ws = None \/ callState.call_connection_id = NoCall)
        /\ (\/ \E on \in BOOLEAN : ApiMute(on)
            \/ \E p \in Plays, i \in PlayInputs : ApiPlay(p, i[1], i[2], i[3])
            \/ \E p \in Plays, ttsAvailable \in BOOLEAN, textOk \in BOOLEAN :
                   ApiSay(p, ttsAvailable, textOk)))
    => /\ lastOp'.res = "409"
       /\ UNCHANGED <<callState, sent, plays, ms, stt, txTask, ttsTask>>
C10_ConflictMutatesNothing == [][C10_Step]_vars

\* C10 witness: say was refused with 409 on an attached channel that has no
\* call handle.
C10_Witness ==
    /\ lastOp = Op("say", "409", 0)
    /\ callState.ws # None
    /\ callState.call_connection_id = NoCall

\* C11: after a successful hangup the stored call handle is None (so that a
\* second hangup without a new call answers Conflict and does not reach the
\* call-control provider again).
C11_HandleClearedAfterHangup ==
    lastOp = Op("hangup", "ok", 0) => callState.call_connection_id = NoCall

\* C12: process_audio_chunk on a running service neither blocks nor raises:
\* with STT_QUEUE_THRESHOLD or more chunks in the work queue the chunk is
\* dropped and the queue is unchanged, otherwise the chunk is appended at
\* the tail.
C12_Step ==
    (vosk.is_running /\ vosk.stt_queue # None /\ ProcessAudioChunk)
    => IF Len(sttq[vosk.stt_queue]) >= STT_QUEUE_THRESHOLD
       THEN /\ lastOp' = Op("stt_chunk", "dropped", 0)
            /\ sttq' = sttq
       ELSE /\ lastOp' = Op("stt_chunk", "queued", 0)
            /\ sttq' = [sttq EXCEPT ![vosk.stt_queue] = Append(@, inbound')]
C12_ChunkDroppedAtThreshold == [][C12_Step]_vars

\* C12 witness: a chunk was dropped with the work queue at the threshold.
C12_Witness ==
    /\ lastOp = Op("stt_chunk", "dropped", 0)
    /\ vosk.is_running
    /\ Len(sttq[vosk.stt_queue]) = STT_QUEUE_THRESHOLD

\* C13: every item on a transcript queue (and every item taken from one) is
\* a finalized result with a non-empty trimmed text.
FinalNonEmpty(item) ==
    /\ item.final
    /\ item.text # << >>
    /\ Strip(item.text) = item.text
C13_OnlyFinalNonEmpty ==
    /\ \A q \in Runs : \A i \in 1..Len(trq[q]) : FinalNonEmpty(trq[q][i])
    /\ \A i \in 1..Len(taken) : FinalNonEmpty(taken[i])

\* C13 witness: two chunks were recognized, one gave a transcript that is
\* on the queue and the other (a partial or an empty result) gave nothing.
C13_Witness ==
    /\ Len(fed) = 2
    /\ nfinal = 1
    /\ \A w \in Runs : workers[w].pc \notin {"busy", "emit"}
    /\ \E q \in Runs : Len(trq[q]) = 1

\* C14: order is preserved on the inbound leg.  The chunks given to the
\* recognizer are inbound chunks in receipt order (chunk k is the k-th
\* received; drops allowed), and the transcripts taken by the consumer come
\* in the order they were finalized (transcript n is the n-th finalized).
C14_OrderPreserved ==
    /\ \A i \in 1..Len(fed) :
           /\ fed[i].chunk \in 1..inbound
           /\ \A j \in 1..Len(fed) : i < j => fed[i].chunk < fed[j].chunk
    /\ \A i \in 1..Len(taken) :
           /\ taken[i].n \in 1..nfinal
           /\ \A j \in 1..Len(taken) : i < j => taken[i].n < taken[j].n

\* C15: start_processing on a running service changes nothing: no worker is
\* started and the work queue, the transcript queue and the stop flag stay.
C15_Step ==
    (vosk.is_running /\ SttStart)
    => UNCHANGED <<vosk, sttq, workers, trq, joining>>
C15_StartWhileRunningNoOp == [][C15_Step]_vars

\* C15 witness: a start found the service running.
C15_Witness ==
    /\ lastOp = Op("stt_start", "already_running", 0)
    /\ vosk.is_running

\* C16: stop_processing and process_audio_chunk on a service that is not
\* running return at once and change nothing (so a second stop in a row
\* equals the first).
C16_Step ==
    (~vosk.is_running /\ (SttStopBegin \/ ProcessAudioChunk))
    => /\ lastOp'.res = "not_running"
       /\ UNCHANGED <<vosk, sttq, workers, trq, joining, nstart, fed, nfinal,
                      taken>>
C16_NotRunningNoOp == [][C16_Step]_vars

\* C16 witness: a stop found the service already stopped.
C16_Witness ==
    /\ lastOp = Op("stt_stop", "not_running", 0)
    /\ vosk.should_stop

\* C17: stop_processing on a running service returns and leaves the
\* service idle, also when the worker is still inside the recognizer when
\* the join times out.
SttIdle ==
    /\ ~vosk.is_running
    /\ vosk.stt_queue = None
    /\ vosk.transcript_queue = None
    /\ vosk.worker_thread = None
C17_StopReturnsIdle ==
    joining ~> (~joining /\ lastOp = Op("stt_stop", "stopped", 0) /\ SttIdle)

\* C17 witness: stop_processing returned while a worker was still inside
\* the recognizer.
C17_Witness ==
    /\ lastOp = Op("stt_stop", "stopped", 0)
    /\ SttIdle
    /\ \E w \in Runs : workers[w].pc = "busy"

\* C18: for a compliant source of L bytes and frame size B, the pacer
\* started at sequence number s sends frames numbered s, s+1, ... in send
\* order, each B bytes long and made of the next source bytes followed by
\* zero bytes; when it returns it has sent ceil(L/B) frames, only the last
\* of which may be padded, all L source bytes have been sent, and it
\* returns s + ceil(L/B).
CeilDiv(a, b) == (a + b - 1) \div b
C18_FramesAndReturn ==
    (pacer.pc # "idle" /\ pacer.fmt.channels = 1 /\ pacer.fmt.width = 2
        /\ pacer.fmt.rate = SAMPLE_RATE) =>
        /\ \A i \in 1..Len(pframes) :
               /\ pframes[i].seq = pacer.start + i - 1
               /\ pframes[i].off = (i - 1) * bytes_per_frame
               /\ pframes[i].data + pframes[i].zeros = bytes_per_frame
               /\ pframes[i].data > 0
               /\ i < Len(pframes) => pframes[i].zeros = 0
        /\ pacer.pc = "ret" =>
               /\ Len(pframes) = CeilDiv(pacer.total, bytes_per_frame)
               /\ BytesRead(pframes) = pacer.total
               /\ pacer.seq = pacer.start + CeilDiv(pacer.total, bytes_per_frame)
               /\ callState.seq = pacer.seq

\* C18 witness: a playback started at a number above 0 returned after three
\* frames, the last one padded.
C18_Witness ==
    /\ pacer.pc = "ret"
    /\ pacer.start > 0
    /\ Len(pframes) = 3
    /\ pframes[3].zeros > 0

\* C19: a source that is not single-channel, 16-bit, 16 kHz is rejected
\* before any frame is sent: the pacer fails with no frame transmitted and
\* play_audio_file leaves callState.seq as it was.
Pcm16kMono(f) == f.channels = 1 /\ f.width * 8 = 16 /\ f.rate = 16000
C19_RejectedBeforeStreaming ==
    (pacer.pc # "idle" /\ ~Pcm16kMono(pacer.fmt)) =>
        /\ pacer.pc = "exc"
        /\ lastOp = Op("play_audio_file", "exc", 0)
        /\ pframes = << >>
        /\ callState.seq = pacer.start

\* C19 witness: a non-empty two-channel source was rejected after an
\* earlier playback had advanced the sequence number.
C19_Witness ==
    /\ pacer.pc = "exc"
    /\ pacer.fmt.channels = 2
    /\ pacer.total > 0
    /\ pacer.start > 0
    /\ pframes = << >>

\* C20: while the orchestrator is Streaming, an inbound audioData message
\* whose payload is valid base64 makes exactly one append to the recording
\* and, when STT is available, exactly one submission to the STT service
\* (none otherwise), both carrying the decoded bytes of that message.
ValidPayload(b64_data) == b64_data # << >> /\ B64Decode(b64_data).ok
C20_Step ==
    \A c \in Conns, b64_data \in Payloads :
        (Streaming /\ ValidPayload(b64_data) /\ InboundAudio(c, b64_data))
        => /\ Len(recorded') = Len(recorded) + 1
           /\ recorded'[Len(recorded')].data = B64Decode(b64_data).bytes
           /\ SubSeq(recorded', 1, Len(recorded)) = recorded
           /\ IF sttAvailable
              THEN submitted' = Append(submitted, B64Decode(b64_data).bytes)
              ELSE submitted' = submitted
C20_OneAppendOneSubmission == [][C20_Step]_vars

\* C21: a message that is not JSON, has a missing or unknown kind, or is an
\* audioData message with an empty or undecodable payload changes nothing
\* (no recording append, no STT submission, no change of the streamer or of
\* CallState) and leaves the endpoint in its receive loop; a valid audioData
\* message that comes right after such a message is processed.
Malformed(m) ==
    \/ m.form = "invalid"
    \/ m.form = "object" /\ m.kind \in {"", "stopAudio"}
    \/ /\ m.form = "object"
       /\ m.kind \in {"AudioData", "audioData"}
       /\ (m.data = << >> \/ ~B64Decode(m.data).ok)
WellFormedAudio(m) ==
    /\ m.form = "object"
    /\ m.kind \in {"AudioData", "audioData"}
    /\ m.data # << >>
    /\ B64Decode(m.data).ok
Dropped ==
    \/ lastOp.op = "message" /\ lastOp.res \in {"bad_json", "ignored"}
    \/ lastOp.op = "audio_data" /\ lastOp.res \in {"no_data", "error"}
C21_Step ==
    \A m \in Messages :
        InboundMessage(1, m) =>
            /\ Malformed(m) =>
                   /\ UNCHANGED <<callVars, recVars, sttVars>>
                   /\ conn'[1].pc = "open"
                   /\ Dropped'
            /\ (Dropped /\ WellFormedAudio(m)) =>
                   lastOp' = Op("audio_data", "processed", 0)
C21_MalformedIgnored == [][C21_Step]_vars

\* C21 witness: the loop read two messages, dropped the first and processed
\* the second, whose bytes are in the recording.
C21_Witness ==
    /\ received[1] = 2
    /\ lastOp = Op("audio_data", "processed", 0)
    /\ Len(recorded) = 1

\* C22: there is one recording writer per call: at most one writer is open
\* at any time, while the orchestrator is Streaming the current writer is
\* open, and the frames received on a channel are appended to the writer
\* opened for that channel only.
C22_OneWriterPerCall ==
    /\ Cardinality(wavOpen) <= 1
    /\ Streaming => ms.wav_writer \in wavOpen
    /\ \A i \in 1..Len(recorded) : recorded[i].w = recorded[i].c

\* C23: a turn of the TTS consumer whose synthesis or playback raises does
\* not end the consumer.  While the channel stays attached: after a failed
\* turn the task is waiting for a transcript or has begun the next turn;
\* every turn ends; and a transcript that is queued while the task is not
\* in a turn is taken and gets its turn.
TurnFailed == lastOp = Op("tts_turn", "exc", 1)
C23_ConsumerSurvivesFailure ==
    /\ [](TurnFailed => ttsTask[1].st \in {"waiting", "synth"})
    /\ (InTurn(ttsTask[1]) ~> lastOp.op = "tts_turn")
    /\ ((ms.transcript_queue # None /\ tqs[1] > 0 /\ ~InTurn(ttsTask[1]))
           ~> ttsTask[1].st = "synth")

\* C23 witness: a turn failed and the consumer went round its loop, took
\* the transcript that was waiting and began that transcript's turn.
C23_Witness ==
    /\ TurnFailed
    /\ ttsTask[1].st = "synth"
    /\ tqs[1] = 0

\* C24: the capture callback returns without raising; with callState.muted
\* true or 200 frames in the outbound queue the frame is dropped and the
\* queue is unchanged, otherwise the frame is appended; the outbound queue
\* never holds more than 200 frames.
C24_Step ==
    \A m \in Conns :
        (ms.tx_queue # None /\ MicFrame(m)) =>
            /\ IF callState.muted \/ txq[ms.tx_queue] >= 200
               THEN /\ txq' = txq
                    /\ lastOp'.res \in {"muted", "full"}
               ELSE /\ txq' = [txq EXCEPT ![ms.tx_queue] = @ + 1]
                    /\ lastOp'.res = "queued"
            /\ \A q \in Conns : txq'[q] <= 200
C24_CaptureNeverBlocks == [][C24_Step]_vars

\* C24 witness: a frame was dropped because the outbound queue held 200
\* frames, with the microphone not muted.
C24_Witness ==
    /\ lastOp = Op("mic", "full", 0)
    /\ ~callState.muted
    /\ ms.tx_queue # None
    /\ txq[ms.tx_queue] = 200

\* C25: while the orchestrator is Streaming the sender task keeps running
\* (it ends only by being cancelled, which the teardown does), so that
\* every frame on the outbound queue is taken and transmitted with the
\* next sequence number.
C25_SenderRunsUntilCancelled ==
    Streaming => txTask[ms.tx_task].st \in {"new", "waiting"}


\* C26: a composite synthesize of non-empty text calls the primary backend
\* first when it is available; when the primary is unavailable or raised and
\* the secondary is available, the secondary is called exactly once and what
\* it returns or raises is the result; the secondary is not called after a
\* primary success; with neither available the call raises RuntimeError
\* without calling a backend.
CompositeSpoke ==
    /\ synth.pc = "ready"
    /\ synth.last.svc = "composite"
    /\ \E i \in 1..Len(synth.last.text) : synth.last.text[i] # " "
PrimarySucceeded ==
    /\ synth.last.tried # << >>
    /\ synth.last.tried[1].svc = "piper"
    /\ synth.last.tried[1].res = "ok"
SecondaryCalls ==
    {i \in 1..Len(synth.last.tried) : synth.last.tried[i].svc = "pyttsx3"}
C26_CompositeFallback ==
    CompositeSpoke =>
        LET l == synth.last
        IN  /\ synth.piper_ok <=> (l.tried # << >> /\ l.tried[1].svc = "piper")
            /\ \A i \in 2..Len(l.tried) : l.tried[i].svc # "piper"
            /\ PrimarySucceeded =>
                   /\ SecondaryCalls = {}
                   /\ l.pyttsx3_n = 0
                   /\ l.res = "ok" /\ l.path = l.tried[1].path
            /\ (~PrimarySucceeded /\ synth.pyttsx3_ok) =>
                   /\ SecondaryCalls = {Len(l.tried)}
                   /\ l.pyttsx3_n <= 1
                   /\ l.res = l.tried[Len(l.tried)].res
                   /\ l.path = l.tried[Len(l.tried)].path
            /\ (~synth.piper_ok /\ ~synth.pyttsx3_ok) =>
                   /\ l.res = "RuntimeError" /\ l.tried = << >>
                   /\ l.piper_n = 0 /\ l.pyttsx3_n = 0
\* The primary raised and the secondary served the request.
C26_Witness ==
    /\ CompositeSpoke
    /\ Len(synth.last.tried) = 2
    /\ synth.last.tried[1].res = "EngineError"
    /\ synth.last.tried[2].svc = "pyttsx3"
    /\ synth.last.res = "ok"

\* C27: synthesize of empty or whitespace-only text raises ValueError and
\* invokes no engine, on the composite service and on each backend, available
\* or not.
C27_EmptyTextRejected ==
    (/\ synth.pc = "ready"
     /\ synth.last.svc # "none"
     /\ \A i \in 1..Len(synth.last.text) : synth.last.text[i] = " ")
        => /\ synth.last.res = "ValueError"
           /\ synth.last.piper_n = 0
           /\ synth.last.pyttsx3_n = 0

\* C28: when a synthesize call that succeeded is followed by a call on the
\* same service with the same text, voice and rate, the second call returns
\* the path the first returned and invokes no engine.
C28_SecondCallFromCache ==
    (/\ synth.pc = "ready"
     /\ synth.prev.res = "ok"
     /\ synth.last.svc = synth.prev.svc
     /\ synth.last.text = synth.prev.text
     /\ synth.last.voice = synth.prev.voice
     /\ synth.last.rate = synth.prev.rate)
        => /\ synth.last.res = "ok"
           /\ synth.last.path = synth.prev.path
           /\ synth.last.piper_n = 0
           /\ synth.last.pyttsx3_n = 0

\* C29: a streaming generation makes at most 4 requests; the sleeps before
\* the second, third and fourth request are 1 s, 2 s and 4 s; every request
\* after the first follows one sleep; LLMUnavailable for exhaustion is raised
\* after exactly 4 requests; a status other than 200, 502, 503, 504 raises
\* LLMUnavailable at the request that received it; and once the generation
\* has completed or raised, no further request is made.
IsPrefix(a, b) == Len(a) <= Len(b) /\ \A i \in 1..Len(a) : a[i] = b[i]
C29_State ==
    llm.pc # "idle" =>
        /\ llm.requests <= 4
        /\ IsPrefix(llm.slept, <<1, 2, 4>>)
        /\ llm.pc \in {"post", "sleep"} => llm.requests = Len(llm.slept)
        /\ llm.pc \in {"stream", "done"} => llm.requests = Len(llm.slept) + 1
        /\ (llm.pc = "raised" /\ llm.cause = "retries")
               => llm.requests = 4 /\ llm.slept = <<1, 2, 4>>
        /\ (llm.pc = "raised" /\ llm.cause = "status")
               => /\ llm.status \notin {200, 502, 503, 504}
                  /\ llm.requests = Len(llm.slept) + 1
        /\ llm.status \notin {0, 200, 502, 503, 504} => llm.pc = "raised"
        /\ llm.pc = "stream" => llm.status = 200
C29_Step ==
    /\ llm.pc \in {"done", "raised"} => llm' = llm
    /\ llm.pc = "idle" => llm'.pc = "idle" \/ llm'.requests = 0
    /\ (llm.pc # "idle" /\ llm'.requests > llm.requests)
           => /\ llm'.requests = llm.requests + 1
              /\ llm.pc = "post"
              /\ llm.requests = 0 \/ llm.slept # << >>
C29_BoundedRetries == []C29_State /\ [][C29_Step]_vars
\* Four requests failed and the generation gave up.
C29_Witness ==
    /\ llm.pc = "raised"
    /\ llm.cause = "retries"
    /\ llm.requests = 4

\* C30: with stop sequences configured, when a generation served by one
\* request has ended, the chunks it yielded, concatenated, are the response
\* chunks, concatenated, cut immediately before the first occurrence of a
\* stop sequence (uncut when none occurs).
StopPositions(text, stops) ==
    {i \in 1..Len(text) :
        \E k \in 1..Len(stops) :
            /\ i + Len(stops[k]) - 1 <= Len(text)
            /\ \A j \in 1..Len(stops[k]) : text[i + j - 1] = stops[k][j]}
Truncated(text, stops) ==
    LET ps == StopPositions(text, stops)
    IN  IF ps = {} THEN text
        ELSE SubSeq(text, 1, (CHOOSE i \in ps : \A j \in ps : i <= j) - 1)
C30_StopTruncation ==
    (llm.pc = "done" /\ llm.stop_sequences # << >> /\ llm.requests = 1)
        => Concat(llm.yielded)
               = Truncated(Concat(llm.lines), llm.stop_sequences)

\* C31: the chunks llm_respond_text has yielded are always the beginning of
\* the model's chunks up to the first rejected one, with "[blocked]" in the
\* place of that one and nothing after it; and when the reply ends without
\* the model having become unavailable, they are all of it.
RECURSIVE Guarded(_)
Guarded(chunks) ==
    IF chunks = << >> THEN << >>
    ELSE IF \E i \in 1..Len(Head(chunks)) : Head(chunks)[i] = "card"
    THEN << <<"[blocked]">> >>
    ELSE <<Head(chunks)>> \o Guarded(Tail(chunks))
C31_GuardedReply ==
    respond.pc # "idle" =>
        LET want == Guarded(respond.chunks)
        IN  /\ Len(respond.yielded) <= Len(want)
            /\ \A i \in 1..Len(respond.yielded) : respond.yielded[i] = want[i]
            /\ (respond.pc \in {"done", "raised"}
                /\ respond.error # "LLMUnavailable")
                   => respond.yielded = want

\* C32: a get that was entered ends; it never makes more than max_retries+1
\* requests; when it has ended, the sleeps it made are one fewer than its
\* requests; a rate limit that persists ends it after exactly max_retries+1
\* requests; and an error that is not retried ends it at the request that
\* met it, the first request included (one request, no sleep).
LilEnded == lil.pc \in {"returned", "raised"}
C32_State ==
    lil.pc # "idle" =>
        /\ lil.requests <= lil.max_retries + 1
        /\ LilEnded => lil.sleeps = lil.requests - 1
        /\ (lil.pc = "raised" /\ lil.error = "RateLimit")
               => /\ lil.requests = lil.max_retries + 1
                  /\ lil.sleeps = lil.max_retries
        /\ lil.pc = "sleep" => lil.sleeps = lil.requests - 1
        /\ lil.pc = "request" => lil.sleeps = lil.requests
C32_Step ==
    (lil.pc # "idle" /\ lil'.pc = "raised" /\ lil'.error = "NonRetryable")
        => /\ lil.pc = "request"
           /\ lil'.requests = lil.requests + 1
           /\ lil'.sleeps = lil.sleeps
           /\ lil.requests = 0 => (lil'.requests = 1 /\ lil'.sleeps = 0)
C32_BoundedGet ==
    /\ []C32_State
    /\ [][C32_Step]_vars
    /\ (lil.pc # "idle") ~> LilEnded
\* A rate limit persisted through every attempt of a client with retries.
C32_Witness ==
    /\ lil.pc = "raised"
    /\ lil.error = "RateLimit"
    /\ lil.max_retries = MaxRetries
    /\ lil.sleeps = MaxRetries

\* C33: within one playback the reference time does not change; the
\* deadline computed after sending frame k is the reference plus k frame
\* intervals, however long the sends lasted; the sleep asked for is the time
\* left to that deadline, or zero when it has passed; and frame k+1 is sent
\* no earlier than that deadline.
C33_State ==
    clock # [now |-> 0] =>
        /\ Len(clock.deadlines) = Len(clock.sends)
        /\ Len(clock.asked) = Len(clock.sends)
        /\ Len(clock.sends) = Len(pframes)
        /\ \A k \in 1..Len(clock.sends) :
               /\ clock.deadlines[k] = clock.ref + k * 20
               /\ clock.asked[k] = IF clock.deadlines[k] > clock.at[k]
                                   THEN clock.deadlines[k] - clock.at[k]
                                   ELSE 0
               /\ clock.sends[k] >= clock.ref
               /\ k > 1 => clock.sends[k] >= clock.deadlines[k - 1]
C33_Step == pacer.pc = "sleep" => clock'.ref = clock.ref
C33_MonotonicPacing == []C33_State /\ [][C33_Step]_vars
\* A send outlasted its interval, so no sleep was asked for, and the next
\* frame was paced against the same reference.
C33_Witness ==
    /\ pacer.pc # "idle"
    /\ Len(clock.sends) = 3
    /\ clock.asked[1] = 0
    /\ clock.asked[2] > 0
    /\ clock.sends[3] > clock.deadlines[2]
\* ------------------------------------------------------------------- C34
\* The teardown steps of stop_streaming, as steps of the model.
CaptureStops == captureActive' # captureActive
                    /\ captureActive' \subseteq captureActive
TtsCancelRequested ==
    /\ ttsTask' # ttsTask
    /\ \E u \in Conns : ~ttsTask[u].cancel /\ ttsTask'[u].cancel
SttStops == stt.running /\ ~stt'.running
RecordingCloses == wavOpen' # wavOpen /\ wavOpen' \subseteq wavOpen
\* The step is taken by a cleanup that has nothing left to await of the
\* sender task (of the TTS-consumer task): the task it awaited has ended,
\* or it found none to await.
SenderAwaited ==
    \E c \in Conns :
        /\ conn'[c] # conn[c]
        /\ \/ conn[c].pc = "await_tx" /\ txTask[conn[c].aw].st = "done"
           \/ /\ conn[c].pc = "closed"
              /\ ms.tx_task = None \/ txTask[ms.tx_task].st = "done"
ConsumerAwaited ==
    \E c \in Conns :
        /\ conn'[c].pc = "done"
        /\ \/ conn[c].pc = "await_tts" /\ ttsTask[conn[c].aw].st = "done"
           \/ /\ conn[c].pc \in {"closed", "await_tx"}
              /\ ms.tts_task = None \/ ttsTask[ms.tts_task].st = "done"

\* C34: stop_streaming performs its teardown in the order sender task,
\* TTS-consumer task, STT pipeline, local capture, recording sink: the
\* capture device is stopped only once the TTS-consumer task has been
\* cancelled and awaited, so no step stops the capture and leaves its
\* cleanup waiting for the TTS consumer.
C34_CaptureAfterConsumer ==
    [][CaptureStops =>
          \A c \in Conns : conn'[c].pc = "await_tts"
                                => conn[c].pc = "await_tts"]_vars

\* C34 as the code has it: sender task (cancelled and awaited), local
\* capture, TTS-consumer task (cancelled and awaited), STT pipeline,
\* recording sink.  The capture stops only in a cleanup done with the
\* sender task; the TTS consumer is cancelled only by such a cleanup, the
\* capture stream and the sender handle dropped; the STT service stops and
\* the recording closes only in a cleanup done with the TTS consumer, the
\* closed recording never leaving an available STT service running.
C34_TeardownOrder ==
    [][/\ CaptureStops => SenderAwaited /\ ms'.tx_task = None
       /\ TtsCancelRequested =>
              /\ SenderAwaited
              /\ ms'.tx_task = None /\ ms'.mic_stream = None
       /\ SttStops => ConsumerAwaited
       /\ RecordingCloses =>
              /\ ConsumerAwaited
              /\ ~(sttAvailable /\ stt'.running)]_vars

\* A cleanup that had to wait for both tasks: the capture was stopped and
\* the sender had ended while the cancelled TTS consumer is still awaited,
\* the STT service running and the recording open.
C34_Witness ==
    /\ conn[1].pc = "await_tts"
    /\ ttsTask[conn[1].aw].cancel
    /\ ms.tx_task = None
    /\ txTask[1].st = "done"
    /\ 1 \notin captureActive
    /\ stt.running
    /\ wavOpen # {}

\* ------------------------------------------------------------------- C35
\* A playback (play_audio_file or a TTS-consumer turn) is between two of
\* its frames.
PlaybackInProgress ==
    \/ \E p \in Plays : plays[p].st = "playing"
    \/ \E c \in Conns : ttsTask[c].st = "playing"
\* A step in which a captured frame leaves an outbound queue.
FrameTaken == \E q \in DOMAIN txq : txq'[q] < txq[q]

NoPlayback ==
    /\ \A p \in Plays : plays[p].st # "playing"
    /\ \A c \in Conns : ttsTask[c].st \notin {"synth", "playing"}

\* C36: with the microphone unmuted at the start and no mute request ever
\* made, the microphone is unmuted whenever no playback is in progress,
\* overlapping playbacks included.
C36_UnmutedAfterPlaybacks == NoPlayback => ~callState.muted

\* ------------------------------------------------------------------- C37
\* C37: a mute request accepted during a call is durable: whenever no
\* playback is in progress, callState.muted is the `on` of the most recent
\* accepted request (the call of this specification does not end).
C37_MuteDurable ==
    (muteLog # "none" /\ NoPlayback) => (callState.muted <=> muteLog = "on")

\* ------------------------------------------------------------------- C38
\* C38: across start_processing / stop_processing calls the only worker
\* that takes a chunk from the current work queue, or emits to the current
\* transcript channel, is the worker of the current run: a worker of an
\* earlier run that outlived the join does neither.
C38_Step ==
    \A w \in Runs :
        /\ (workers[w].pc = "ready" /\ workers'[w].pc = "busy")
               => vosk.worker_thread = w
        /\ (workers[w].pc = "emit" /\ workers'[w].pc = "ready"
                /\ trq' # trq)
               => vosk.worker_thread = w
C38_OneWorkerPerRun == [][C38_Step]_vars

\* ------------------------------------------------------------------- C39
\* C39: a retry never repeats output: after a transient failure the chunks
\* yielded over the whole call, concatenated, are still the beginning of
\* one response (stated without stop sequences, whose cut is C30's).
C39_NoReplay ==
    (llm.pc # "idle" /\ llm.slept # << >> /\ llm.stop_sequences = << >>)
        => LET out  == Concat(llm.yielded)
               body == Concat(llm.lines)
           IN  /\ Len(out) <= Len(body)
               /\ \A i \in 1..Len(out) : out[i] = body[i]

====
